---- MODULE Spec2Model ----
(***************************************************************************)
(* A model of the text path of Celestia's renderer:                        *)
(*   - TextureFontPrivate (celttf/truetypefont.cpp): the glyph table, the   *)
(*     atlas and the pending quad batch;                                    *)
(*   - Overlay (celengine/overlay.cpp): the cursor, the offset accumulator, *)
(*     the position stack and the text blocks;                              *)
(*   - OverlayStreamBuf (celengine/overlay.cpp): the streaming UTF-8        *)
(*     decoder behind the overlay's ostream;                                *)
(*   - Frustum (celmath/frustum.h): the classification of points and        *)
(*     spheres against the view volume.                                     *)
(*                                                                         *)
(* Coordinates are floats in the source; the model uses integers (the      *)
(* values the model draws are small integers, which floats hold exactly).  *)
(* An atlas coordinate tx = ox / m_texWidth is kept as the pair            *)
(* <<ox, m_texWidth>>.                                                      *)
(***************************************************************************)
EXTENDS Integers, Sequences, FiniteSets, TLC

VARIABLES
    \* ---- FreeType / OpenGL (external to the repository)
    ftFail,        \* code points for which FT_Load_Char fails on m_face
    uninit,        \* what an uninitialized local Glyph holds in this build
    shaderOk,      \* the shader manager can give the "text" program
    gl,            \* the OpenGL context: bindings, the MVPMatrix uniform
    \* ---- TextureFontPrivate
    impl,          \* the fields of the TextureFontPrivate of the loaded font
    \* ---- observation of the last TextureFontPrivate call
    lastReq,       \* <<ch, fallback>> of the last getGlyph(ch, fallback)
    lastRet,       \* the Glyph record that call returned
    lastRebuilt,   \* that call ran buildAtlas
    tracked,       \* one earlier getGlyph call: its arguments, the metrics returned
    requested,     \* the code points asked of getGlyph(wchar_t) so far
    \* ---- observation of the TextureFont calls
    lastCall,      \* the last TextureFont call: its arguments, what it returned,
                   \* the pending batch before it, the draw it submitted
    staleQuads,    \* vertices pending that were appended before the last
                   \* setMVPMatrix call
    \* ---- TextureFont::load
    ft,            \* the FreeType library handle (static FT_Library ft)
    lastLoad,      \* the last LoadTextureFont call: the outcome of each step it
                   \* took and what it returned
    \* ---- Overlay
    ov,            \* the fields of Overlay
    blockLog,      \* per open text block: where it began, what was printed since
    lastOp,        \* the last Overlay call: its argument, the
                   \* font->render calls it made, the block it closed
    crashed,       \* a call with undefined behaviour was made
    \* ---- OverlayStreamBuf
    decodeState, decodedChar, decodeShift,
    ret,           \* the last overflow(c): c, the value returned, the state before
    stream,        \* every byte passed to overflow so far
    printed,       \* the code points passed to Overlay::print by overflow
    pending,       \* bytes of the character being written, not yet passed
    written,       \* code points of the characters written as whole characters
    clean,         \* only whole well-formed characters were written so far
    \* ---- Frustum
    frustum,       \* the Frustum: its planes and the infinite flag
    lastTest,      \* the last test / testSphere call: its arguments and result
    \* ---- Renderer
    depthSortedAnnotations,  \* the pool of depth-sorted annotations
    annotationsSorted,       \* the pool was sorted since the last addition
    \* ---- observation of the font's binding
    fontBound,     \* font->bind() was called and no font->unbind() since
    \* ---- threads calling LoadTextureFont
    callers,       \* thread -> [pc, ret, calls]: where its call stands
    ftInits,       \* FT_Init_FreeType calls that returned success
    \* ---- the colour attribute of the OpenGL context
    colorAttrib,   \* what the latest glVertexAttrib4f(ColorAttributeIndex, ...) set
    staleColored   \* pending vertices printed before colorAttrib last changed

ftVars      == <<ftFail, uninit, shaderOk, gl>>
fontVars    == <<impl, lastReq, lastRet, lastRebuilt, tracked>>
overlayVars == <<ov, blockLog, lastOp, crashed>>
decoderVars == <<decodeState, decodedChar, decodeShift, ret, stream, printed,
                 pending, written, clean>>
apiVars     == <<requested, lastCall, staleQuads>>
loadVars    == <<ft, lastLoad>>
frustumVars == <<frustum, lastTest>>
annotVars   == <<depthSortedAnnotations, annotationsSorted>>
threadVars  == <<callers, ftInits>>
colorVars   == <<colorAttrib, staleColored>>
sceneVars   == <<frustumVars, annotVars, fontBound, threadVars, colorVars>>
vars        == <<ftVars, fontVars, apiVars, loadVars, overlayVars, decoderVars,
                 sceneVars>>

----------------------------------------------------------------------------
(* Helpers *)

Max(a, b) == IF a >= b THEN a ELSE b

\* F(e), with e evaluated once and handed to F as a value
With(e, F(_)) == CHOOSE r \in {F(x) : x \in {e}} : TRUE

RECURSIVE Pow2(_)
Pow2(n) == IF n = 0 THEN 1 ELSE 2 * Pow2(n - 1)

\* a & b on naturals
RECURSIVE BitAnd(_, _)
BitAnd(a, b) ==
    IF a = 0 \/ b = 0 THEN 0
    ELSE (IF a % 2 = 1 /\ b % 2 = 1 THEN 1 ELSE 0) + 2 * BitAnd(a \div 2, b \div 2)

\* a | b on naturals
RECURSIVE BitOr(_, _)
BitOr(a, b) ==
    IF a = 0 THEN b
    ELSE IF b = 0 THEN a
    ELSE (IF a % 2 = 1 \/ b % 2 = 1 THEN 1 ELSE 0) + 2 * BitOr(a \div 2, b \div 2)

----------------------------------------------------------------------------
(* FreeType: the face of the loaded font.  FT_Load_Char(m_face, ch) fails   *)
(* exactly for the code points of ftFail (a property of the font file), and *)
(* otherwise fills the glyph slot with the metrics below.                   *)

FT_Load_Char_Ok(ch) == ch \notin ftFail

FT_Slot(ch) ==
    [ ax |-> 2 + (ch % 5),            \* advance.x >> 6
      ay |-> 0,                       \* advance.y >> 6
      bw |-> ch % 4,                  \* bitmap.width
      bh |-> (ch \div 4) % 3,         \* bitmap.rows
      bl |-> ch % 2,                  \* bitmap_left
      bt |-> 1 + ((ch \div 2) % 3) ]  \* bitmap_top

----------------------------------------------------------------------------
(* struct Glyph *)

MetricFields == {"ax", "ay", "bw", "bh", "bl", "bt"}

Metrics(g) == [f \in MetricFields |-> g[f]]

ZeroGlyph ==
    [ ch |-> 0, ax |-> 0, ay |-> 0, bw |-> 0, bh |-> 0, bl |-> 0, bt |-> 0,
      tx |-> <<0, 1>>, ty |-> <<0, 1>> ]

\* Glyph g_badGlyph = {0};
g_badGlyph == ZeroGlyph

\* An arbitrary bit pattern in a Glyph that was never written.
JunkGlyph ==
    [ ch |-> 77, ax |-> 9, ay |-> 9, bw |-> 9, bh |-> 9, bl |-> 9, bt |-> 9,
      tx |-> <<9, 1>>, ty |-> <<9, 1>> ]

\* What a fresh "Glyph c;" on the stack holds: indeterminate.  The builds
\* differ: zeroed memory, or what the same stack slot held last (prev: the
\* Glyph of the previous loop iteration, an arbitrary pattern before that).
UninitKinds == {"zero", "stale"}

FreshGlyph(prev) ==
    CASE uninit = "zero"  -> ZeroGlyph
      [] uninit = "stale" -> prev

m_unicodeBlocks ==
    << [first |-> 32,  last |-> 126],     \* { 0x0020, 0x007E } Basic Latin
       [first |-> 945, last |-> 975] >>   \* { 0x03B1, 0x03CF } Lower case Greek

\* a loadGlyphInfo that reports success for a glyph it could not load
LoadGlyphInfoAlways(ch, c) ==
    IF ~FT_Load_Char_Ok(ch)
    THEN [ok |-> TRUE, c |-> [c EXCEPT !.ch = ch]]
    ELSE LET g == FT_Slot(ch)
         IN  [ok |-> TRUE,
              c  |-> [c EXCEPT !.ch = ch, !.ax = g.ax, !.ay = g.ay,
                               !.bw = g.bw, !.bh = g.bh,
                               !.bl = g.bl, !.bt = g.bt]]

\* bool TextureFontPrivate::loadGlyphInfo(wchar_t ch, Glyph &c)
LoadGlyphInfo(ch, c) ==
    IF ~FT_Load_Char_Ok(ch)
    THEN [ok |-> FALSE, c |-> [c EXCEPT !.ch = 0]]
    ELSE LET g == FT_Slot(ch)
         IN  [ok |-> TRUE,
              c  |-> [c EXCEPT !.ch = ch, !.ax = g.ax, !.ay = g.ay,
                               !.bw = g.bw, !.bh = g.bh,
                               !.bl = g.bl, !.bt = g.bt]]

\* The loops over the glyph table are folds of their loop body over an index
\* range, split in halves so that the evaluation stays shallow; the right
\* half starts from the left half's result l, bound as a value.

\* The code points of the blocks in loop order: the i-th (from 1) is
\* BlockChar(i, 1).
RECURSIVE BlockChar(_, _)
BlockChar(i, b) ==
    LET n == m_unicodeBlocks[b].last - m_unicodeBlocks[b].first + 1 IN
    IF i <= n THEN m_unicodeBlocks[b].first + i - 1 ELSE BlockChar(i - n, b + 1)

RECURSIVE BlockSizes(_)
BlockSizes(b) ==
    IF b > Len(m_unicodeBlocks) THEN 0
    ELSE (m_unicodeBlocks[b].last - m_unicodeBlocks[b].first + 1) + BlockSizes(b + 1)

\* an initCommonGlyphs that pushes nothing for a code point that fails to load
InitStepSkip(st, i) ==
    LET r == LoadGlyphInfo(BlockChar(i, 1), FreshGlyph(st.prev))
    IN  IF r.ok THEN [glyphs |-> Append(st.glyphs, r.c), prev |-> r.c]
        ELSE [st EXCEPT !.prev = r.c]

\* The loop body of initCommonGlyphs for the i-th code point; st.prev is what
\* the stack slot of the local c holds when the body starts.
InitStep(st, i) ==
    LET r == LoadGlyphInfo(BlockChar(i, 1), FreshGlyph(st.prev))
    IN  [glyphs |-> Append(st.glyphs, r.c), prev |-> r.c]   \* still pushing empty

RECURSIVE InitRange(_, _, _)
InitRange(st, lo, hi) ==
    IF lo > hi THEN st
    ELSE IF lo = hi THEN InitStep(st, lo)
    ELSE LET mid  == (lo + hi) \div 2
             left == InitRange(st, lo, mid)
         IN  With(left, LAMBDA l : InitRange(l, mid + 1, hi))

\* void TextureFontPrivate::initCommonGlyphs()
InitCommonGlyphs(glyphs) ==
    IF Len(glyphs) > 0 THEN glyphs
    ELSE InitRange([glyphs |-> <<>>, prev |-> JunkGlyph], 1, BlockSizes(1)).glyphs

\* The loop body of computeTextureSize for glyph c
ComputeStep(st, c, maxTex) ==
    IF c.ch = 0 THEN st                           \* skip bad glyphs
    ELSE LET st1 == IF st.roww + c.bw + 1 >= maxTex
                    THEN [w |-> Max(st.w, st.roww), h |-> st.h + st.rowh,
                          roww |-> 0, rowh |-> 0]
                    ELSE st
         IN  [st1 EXCEPT !.roww = @ + c.bw + 1, !.rowh = Max(@, c.bh)]

RECURSIVE ComputeRange(_, _, _, _, _)
ComputeRange(glyphs, maxTex, st, lo, hi) ==
    IF lo > hi THEN st
    ELSE IF lo = hi THEN ComputeStep(st, glyphs[lo], maxTex)
    ELSE LET mid  == (lo + hi) \div 2
             left == ComputeRange(glyphs, maxTex, st, lo, mid)
         IN  With(left, LAMBDA l : ComputeRange(glyphs, maxTex, l, mid + 1, hi))

\* void TextureFontPrivate::computeTextureSize(): <<m_texWidth, m_texHeight>>
ComputeTextureSize(glyphs, maxTex) ==
    LET st == ComputeRange(glyphs, maxTex,
                           [roww |-> 0, rowh |-> 0, w |-> 0, h |-> 0],
                           1, Len(glyphs))
    IN  <<Max(st.w, st.roww), st.h + st.rowh>>

\* PasteStep with a slip: the padded width is stored back into the glyph.
PasteStepDrift(st, i, texW, texH) ==
    LET c == st.glyphs[i] IN
    IF c.ch = 0 THEN st
    ELSE IF ~FT_Load_Char_Ok(c.ch)
    THEN [st EXCEPT !.glyphs[i].ch = 0]
    ELSE LET st1 == IF st.ox + c.bw > texW
                    THEN [st EXCEPT !.oy = @ + st.rowh, !.rowh = 0, !.ox = 0]
                    ELSE st
         IN  [glyphs |-> [st1.glyphs EXCEPT ![i].tx = <<st1.ox, texW>>,
                                            ![i].ty = <<st1.oy, texH>>,
                                            ![i].bw = c.bw + 1],
              rowh   |-> Max(st1.rowh, c.bh),
              ox     |-> st1.ox + c.bw + 1,
              oy     |-> st1.oy]

\* The body of the paste loop of buildAtlas for the i-th glyph;
\* st = [glyphs, ox, oy, rowh]
PasteStep(st, i, texW, texH) ==
    LET c == st.glyphs[i] IN
    IF c.ch = 0 THEN st                           \* skip bad glyphs
    ELSE IF ~FT_Load_Char_Ok(c.ch)
    THEN [st EXCEPT !.glyphs[i].ch = 0]
    ELSE LET g   == FT_Slot(c.ch)
             st1 == IF st.ox + g.bw > texW
                    THEN [st EXCEPT !.oy = @ + st.rowh, !.rowh = 0, !.ox = 0]
                    ELSE st
         IN  [glyphs |-> [st1.glyphs EXCEPT ![i].tx = <<st1.ox, texW>>,
                                            ![i].ty = <<st1.oy, texH>>],
              rowh   |-> Max(st1.rowh, g.bh),
              ox     |-> st1.ox + g.bw + 1,
              oy     |-> st1.oy]

RECURSIVE PasteRange(_, _, _, _, _)
PasteRange(st, texW, texH, lo, hi) ==
    IF lo > hi THEN st
    ELSE IF lo = hi THEN PasteStep(st, lo, texW, texH)
    ELSE LET mid  == (lo + hi) \div 2
             left == PasteRange(st, texW, texH, lo, mid)
         IN  With(left, LAMBDA l : PasteRange(l, texW, texH, mid + 1, hi))

\* a paste loop that never moves on from the origin of the texture
PasteGlyphsAtOrigin(glyphs, texW, texH) ==
    [i \in DOMAIN glyphs |->
        IF glyphs[i].ch = 0 THEN glyphs[i]
        ELSE [glyphs[i] EXCEPT !.tx = <<0, texW>>, !.ty = <<0, texH>>]]

\* The paste loop of buildAtlas: the glyphs with their atlas offsets set.
PasteGlyphs(glyphs, texW, texH) ==
    PasteRange([glyphs |-> glyphs, ox |-> 0, oy |-> 0, rowh |-> 0],
               texW, texH, 1, Len(glyphs)).glyphs

\* bool TextureFontPrivate::buildAtlas(); genOk: glGenTextures gave a name.
\* m = [impl |-> the TextureFontPrivate, gl |-> the OpenGL context]
BuildAtlas(m, genOk) ==
    With(InitCommonGlyphs(m.impl.m_glyphs), LAMBDA glyphs :
    With(ComputeTextureSize(glyphs, m.impl.m_maxTextureSize), LAMBDA size :
    LET fs    == m.impl
        sized == [fs EXCEPT !.m_glyphs = glyphs,
                            !.m_texWidth = size[1], !.m_texHeight = size[2]]
        \* glDeleteTextures: a deleted texture that is bound gets unbound
        gl1   == IF fs.m_texName # 0 /\ m.gl.boundTex = fs.m_texName
                 THEN [m.gl EXCEPT !.boundTex = 0] ELSE m.gl
    IN  IF ~genOk
        THEN [ok |-> FALSE,
              m  |-> [impl |-> [sized EXCEPT !.m_texName = 0], gl |-> gl1]]
        ELSE [ok |-> TRUE,
              m  |-> [impl |-> [sized EXCEPT
                                  !.m_texName = 1,
                                  !.m_glyphs  = PasteGlyphs(glyphs, size[1], size[2])],
                      gl   |-> [gl1 EXCEPT !.boundTex = 1]]]))

\* int TextureFontPrivate::getCommonGlyphsCount(): the count it caches
GetCommonGlyphsCount(fs) ==
    IF fs.m_commonGlyphsCount = 0 THEN BlockSizes(1) ELSE fs.m_commonGlyphsCount

\* int TextureFontPrivate::toPos(wchar_t ch) const
RECURSIVE ToPosFrom(_, _, _)
ToPosFrom(ch, b, pos) ==
    IF b > Len(m_unicodeBlocks) THEN -1
    ELSE LET r == m_unicodeBlocks[b] IN
         IF ch < r.first THEN -1
         ELSE IF ch <= r.last THEN pos + ch - r.first
         ELSE ToPosFrom(ch, b + 1, pos + r.last - r.first + 1)

ToPos(ch) ==
    IF ch > m_unicodeBlocks[Len(m_unicodeBlocks)].last THEN -1
    ELSE ToPosFrom(ch, 1, 0)

\* an optimize that leaves the counter alone
OptimizeKeep(fs) == fs

\* void TextureFontPrivate::optimize()
Optimize(fs) == [fs EXCEPT !.m_inserted = 0]

\* a search that never finds
FindNone(glyphs, i, ch) == 0

\* find_if(m_glyphs.begin() + getCommonGlyphsCount(), m_glyphs.end(), g.ch == ch):
\* the index of the first match, 0 for m_glyphs.end()
RECURSIVE FindFrom(_, _, _)
FindFrom(glyphs, i, ch) ==
    IF i > Len(glyphs) THEN 0
    ELSE IF glyphs[i].ch = ch THEN i
    ELSE FindFrom(glyphs, i + 1, ch)

\* Glyph& TextureFontPrivate::getGlyph(wchar_t ch)
\* rebuilt: buildAtlas ran; the Glyph c it loads into is a fresh local.
GetGlyph1(m, ch, genOk) ==
    LET fs  == m.impl
        pos == ToPos(ch)
    IN
    IF pos # -1
    THEN [m |-> m, g |-> fs.m_glyphs[pos + 1], rebuilt |-> FALSE]
    ELSE
    LET n   == GetCommonGlyphsCount(fs)
        fs1 == [fs EXCEPT !.m_commonGlyphsCount = n]
        m1  == [m EXCEPT !.impl = fs1]
        it  == FindFrom(fs1.m_glyphs, n + 1, ch)
    IN  IF it # 0
        THEN [m |-> m1, g |-> fs1.m_glyphs[it], rebuilt |-> FALSE]
        ELSE
        LET r == LoadGlyphInfo(ch, FreshGlyph(JunkGlyph)) IN
        IF ~r.ok
        THEN [m |-> m1, g |-> g_badGlyph, rebuilt |-> FALSE]
        ELSE
        LET fs2 == [fs1 EXCEPT !.m_glyphs = Append(@, r.c),
                               !.m_inserted = @ + 1]
            fs3 == IF fs2.m_inserted = 10 THEN Optimize(fs2) ELSE fs2
        IN  With(BuildAtlas([m EXCEPT !.impl = fs3], genOk).m, LAMBDA m4 :
                 [m |-> m4, g |-> m4.impl.m_glyphs[Len(m4.impl.m_glyphs)],
                  rebuilt |-> TRUE])

\* Glyph& TextureFontPrivate::getGlyph(wchar_t ch, wchar_t fallback)
GetGlyph(m, ch, fallback, genOk) ==
    With(GetGlyph1(m, ch, genOk), LAMBDA r :
        IF r.g.ch = ch THEN r
        ELSE With(GetGlyph1(r.m, fallback, genOk), LAMBDA q :
                  [q EXCEPT !.rebuilt = r.rebuilt \/ q.rebuilt]))

----------------------------------------------------------------------------
(* TextureFont: the calls Overlay makes.  m_fontVertices is kept as its     *)
(* size: the vertices' contents decide nothing in the code.                 *)

QuestionMark == 63   \* L'?'

\* (short) of an int
ToShort(n) == ((n + 32768) % 65536) - 32768

\* CelestiaGLProgram* TextureFontPrivate::getProgram()
GetProgram(fs) ==
    IF fs.m_prog # 0 THEN fs
    ELSE [fs EXCEPT !.m_prog = IF shaderOk THEN 1 ELSE 0]

\* The number of indexes the loop of flush() pushes for size vertices: the
\* loop variable and its bound are unsigned short.
FlushIndexCount(size) == 6 * (((size % 65536) + 3) \div 4)

\* a flush that draws whatever the batch holds
FlushAlways(m) ==
    [impl |-> [m.impl EXCEPT !.m_fontVertices = 0],
     gl   |-> [m.gl EXCEPT !.lastDraw = FlushIndexCount(m.impl.m_fontVertices)]]

\* void TextureFontPrivate::flush()
Flush(m) ==
    IF m.impl.m_fontVertices < 4 THEN m
    ELSE [impl |-> [m.impl EXCEPT !.m_fontVertices = 0],
          gl   |-> [m.gl EXCEPT !.lastDraw = FlushIndexCount(m.impl.m_fontVertices)]]

\* void TextureFont::bind()
Bind(m) ==
    LET fs == GetProgram(m.impl) IN
    IF fs.m_prog = 0 THEN [m EXCEPT !.impl = fs]
    ELSE IF fs.m_texName # 0
    THEN [impl |-> [fs EXCEPT !.m_shaderInUse = TRUE],
          gl   |-> [m.gl EXCEPT !.boundTex = fs.m_texName, !.program = 1,
                                !.uniformMVP = fs.m_MVP]]
    ELSE [m EXCEPT !.impl = fs]

\* void TextureFont::setMVPMatrix(const Eigen::Matrix4f& mvp)
SetMVPMatrix(m, mvp) ==
    LET fs == GetProgram([m.impl EXCEPT !.m_MVP = mvp])
        m1 == [m EXCEPT !.impl = fs]
    IN  IF fs.m_prog # 0 /\ fs.m_shaderInUse
        THEN LET m2 == Flush(m1) IN [m2 EXCEPT !.gl.uniformMVP = mvp]
        ELSE m1

\* void TextureFont::unbind()
Unbind(m) ==
    LET m1 == Flush(m) IN
    [impl |-> [m1.impl EXCEPT !.m_shaderInUse = FALSE],
     gl   |-> [m1.gl EXCEPT !.boundTex = 0, !.program = 0]]

\* float TextureFontPrivate::render(wchar_t ch, float xoffset, float yoffset)
RenderCh(m, ch, xoffset, yoffset, genOk) ==
    With(GetGlyph(m, ch, QuestionMark, genOk), LAMBDA r :
        [m   |-> [r.m EXCEPT !.impl.m_fontVertices = @ + 4],
         ret |-> r.g.ax])

\* short TextureFont::getAdvance(wchar_t ch) const
GetAdvance(m, ch, genOk) ==
    With(GetGlyph(m, ch, QuestionMark, genOk), LAMBDA r :
        [m |-> r.m, ret |-> ToShort(r.g.ax)])

\* int TextureFont::getHeight() const
GetHeight(fs) == fs.m_maxAscent + fs.m_maxDescent

\* What UTF8Decode(s, i, ch) gives at a position of a std::string: the code
\* point there, or false at bytes that are no UTF-8 sequence.  A string is
\* kept as the sequence of these outcomes, one for each position the loops
\* of render and getWidth visit (i += UTF8EncodedSize(ch) is the next one).
Invalid == -1

\* a turn of the loop of render(const string&) that skips no glyph
RenderStepNoSkip(st, ch, genOk) ==
    With(GetGlyph(st.m, ch, QuestionMark, genOk), LAMBDA r :
        [m  |-> [r.m EXCEPT !.impl.m_fontVertices = @ + 4],
         x  |-> st.x + r.g.ax,
         gs |-> Append(st.gs, Metrics(r.g))])

\* One turn of the loop of render(const string&) for a decoded ch.
\* st = [m, x, gs]: gs lists the metrics of the glyphs getGlyph gave.
RenderStep(st, ch, genOk) ==
    With(GetGlyph(st.m, ch, QuestionMark, genOk), LAMBDA r :
        [m  |-> IF r.g.bw = 0 \/ r.g.bh = 0 THEN r.m
                ELSE [r.m EXCEPT !.impl.m_fontVertices = @ + 4],
         x  |-> st.x + r.g.ax,
         gs |-> Append(st.gs, Metrics(r.g))])

\* while (i < len && validChar)
RECURSIVE RenderLoop(_, _, _, _)
RenderLoop(st, s, i, genOk) ==
    IF i > Len(s) \/ s[i] = Invalid THEN st
    ELSE With(RenderStep(st, s[i], genOk), LAMBDA st1 :
              RenderLoop(st1, s, i + 1, genOk))

\* float TextureFontPrivate::render(const string &s, float x, float y)
RenderString(m, s, x, y, genOk) ==
    IF m.impl.m_texName = 0 THEN [m |-> m, ret |-> 0, gs |-> <<>>]
    ELSE With(RenderLoop([m  |-> [m EXCEPT !.gl.boundTex = m.impl.m_texName],
                          x  |-> x, gs |-> <<>>], s, 1, genOk),
              LAMBDA st : [m |-> st.m, ret |-> st.x, gs |-> st.gs])

\* one turn of the loop of getWidth for a decoded ch; st = [m, width]
WidthStep(st, ch, genOk) ==
    With(GetGlyph(st.m, ch, QuestionMark, genOk), LAMBDA r :
        [m |-> r.m, width |-> st.width + r.g.ax])

RECURSIVE WidthLoop(_, _, _, _)
WidthLoop(st, s, i, genOk) ==
    IF i > Len(s) \/ s[i] = Invalid THEN st
    ELSE With(WidthStep(st, s[i], genOk), LAMBDA st1 :
              WidthLoop(st1, s, i + 1, genOk))

\* int TextureFont::getWidth(const string& s) const
GetWidth(m, s, genOk) ==
    With(WidthLoop([m |-> m, width |-> 0], s, 1, genOk),
         LAMBDA st : [m |-> st.m, ret |-> st.width])

----------------------------------------------------------------------------
(* Overlay.  o is the record of Overlay's fields, m = [impl, gl] the font   *)
(* o.font points to and the OpenGL context.  font = 0 is nullptr, font = 1  *)
(* the loaded TextureFont.  Every operator gives [ov, m] after the call;    *)
(* print also gives the font->render calls it made.                         *)

Newline == 10   \* '\n'

\* a savePos that pushes nothing
SavePosNone(o) == o

\* void Overlay::savePos()
SavePos(o) == [o EXCEPT !.posStack = Append(@, o.global)]

\* a restorePos that leaves xoffset and yoffset alone
RestorePosKeep(o) ==
    IF o.posStack # <<>>
    THEN [o EXCEPT !.global = o.posStack[Len(o.posStack)],
                   !.posStack = SubSeq(@, 1, Len(@) - 1)]
    ELSE o

\* void Overlay::restorePos()
RestorePos(o) ==
    LET o1 == IF o.posStack # <<>>
              THEN [o EXCEPT !.global = o.posStack[Len(o.posStack)],
                             !.posStack = SubSeq(@, 1, Len(@) - 1)]
              ELSE o
    IN  [o1 EXCEPT !.xoffset = 0, !.yoffset = 0]

\* void Overlay::moveBy(float dx, float dy)
MoveBy(o, dx, dy) == [o EXCEPT !.global.x = @ + dx, !.global.y = @ + dy]

\* void Overlay::setFont(TextureFont* f)
SetFont(o, m, f) ==
    IF f # o.font
    THEN [ov |-> [o EXCEPT !.font = f, !.fontChanged = TRUE],
          m  |-> IF o.font # 0 THEN Flush(m) ELSE m]
    ELSE [ov |-> o, m |-> m]

\* font->bind(); font->setMVPMatrix(mvp); useTexture = true; fontChanged = false;
BindFont(o, m) ==
    [ov |-> [o EXCEPT !.useTexture = TRUE, !.fontChanged = FALSE],
     m  |-> SetMVPMatrix(Bind(m), o.mvp)]

\* void Overlay::beginText()
BeginText(o, m) ==
    LET o1 == [SavePos(o) EXCEPT !.textBlock = @ + 1] IN
    IF o1.font # 0 THEN BindFont(o1, m) ELSE [ov |-> o1, m |-> m]

\* void Overlay::endText(); font->unbind() on a null font is undefined:
\* EndTextDefined says whether the call is defined.
EndTextDefined(o) == o.font # 0

EndText(o, m) ==
    LET o1 == IF o.textBlock > 0
              THEN RestorePos([o EXCEPT !.textBlock = @ - 1])
              ELSE o
    IN  [ov |-> o1, m |-> Unbind(m)]

\* a newline that drops the cursor by the font height alone
PrintNewlineTight(o, m) ==
    IF o.textBlock > 0
    THEN LET o1 == RestorePos(o)
             o2 == [o1 EXCEPT !.global.y = @ - GetHeight(m.impl)]
         IN  SavePos(o2)
    ELSE o

\* a newline that saves the cursor before dropping it
PrintNewlineUnsaved(o, m) ==
    IF o.textBlock > 0
    THEN LET o1 == SavePos(RestorePos(o))
         IN  [o1 EXCEPT !.global.y = @ - (1 + GetHeight(m.impl))]
    ELSE o

\* case '\n' of Overlay::print
PrintNewline(o, m) ==
    IF o.textBlock > 0
    THEN LET o1 == RestorePos(o)
             o2 == [o1 EXCEPT !.global.y = @ - (1 + GetHeight(m.impl))]
         IN  SavePos(o2)
    ELSE o

\* a print that renders at the cursor, without xoffset
PrintGlyphAtOrigin(o, m, c, genOk) ==
    With(RenderCh(m, c, o.global.x, o.global.y + o.yoffset, genOk),
         LAMBDA r :
    With(GetAdvance(r.m, c, genOk), LAMBDA a :
        [ov    |-> [o EXCEPT !.xoffset = @ + a.ret],
         m     |-> a.m,
         calls |-> << [c |-> c, x |-> o.global.x,
                       y |-> o.global.y + o.yoffset] >>]))

\* default: of Overlay::print
PrintGlyph(o, m, c, genOk) ==
    With(RenderCh(m, c, o.global.x + o.xoffset, o.global.y + o.yoffset, genOk),
         LAMBDA r :
    With(GetAdvance(r.m, c, genOk), LAMBDA a :
        [ov    |-> [o EXCEPT !.xoffset = @ + a.ret],
         m     |-> a.m,
         calls |-> << [c |-> c, x |-> o.global.x + o.xoffset,
                       y |-> o.global.y + o.yoffset] >>]))

\* void Overlay::print(wchar_t c)
PrintW(o, m, c, genOk) ==
    IF o.font = 0 THEN [ov |-> o, m |-> m, calls |-> <<>>]
    ELSE With(IF ~o.useTexture \/ o.fontChanged
              THEN BindFont(o, m) ELSE [ov |-> o, m |-> m], LAMBDA b :
              IF c = Newline
              THEN [ov |-> PrintNewline(b.ov, b.m), m |-> b.m, calls |-> <<>>]
              ELSE PrintGlyph(b.ov, b.m, c, genOk))

\* void Overlay::print(char c): the same body; font->render and
\* font->getAdvance take the char widened to wchar_t, which keeps its value.
PrintC(o, m, c, genOk) == PrintW(o, m, c, genOk)

\* void Overlay::begin(); global.reset() puts the cursor at the origin
Begin(o) ==
    [o EXCEPT !.mvp = "mvp", !.global = [x |-> 0, y |-> 0],
              !.useTexture = FALSE]

\* void Overlay::drawRectangle(const Rect& r); hasTex: r.tex != nullptr.
\* renderer.drawRectangle(r, mvp) is handed the rectangle and the matrix,
\* not the font: it draws with the font's batch as it found it.
DrawRectangle(o, m, hasTex) ==
    IF o.useTexture /\ ~hasTex
    THEN [ov |-> [o EXCEPT !.useTexture = FALSE],
          m  |-> [m EXCEPT !.gl.boundTex = 0]]
    ELSE [ov |-> o, m |-> m]

\* void Overlay::setColor(float r, float g, float b, float a) and
\* setColor(const Color&)
SetColor(o, m) ==
    [ov |-> o, m |-> IF o.font # 0 THEN Flush(m) ELSE m]

----------------------------------------------------------------------------
(* OverlayStreamBuf::overflow.  d = [decodeState, decodedChar, decodeShift]; *)
(* decodedChar is a wchar_t, 32 bits wide here.                              *)

UTF8DecodeStart     == "UTF8DecodeStart"
UTF8DecodeMultibyte == "UTF8DecodeMultibyte"

\* decodedChar never leaves 31 bits: (c & mask) << decodeShift is at most
\* 1 << 30 (count = 6, mask = 1) and every later byte ORs in bits below the
\* head's, so the shifts and ORs are computed without a modulus.

\* a head count that knows the 2-, 3- and 4-byte forms only
HeadCountShort(c) ==
    IF      BitAnd(c, 224) = 192 THEN 2
    ELSE IF BitAnd(c, 240) = 224 THEN 3
    ELSE IF BitAnd(c, 248) = 240 THEN 4
    ELSE 1

\* the count overflow derives from a head byte c >= 0x80
HeadCount(c) ==
    IF      BitAnd(c, 224) = 192 THEN 2     \* (c & 0xe0) == 0xc0
    ELSE IF BitAnd(c, 240) = 224 THEN 3     \* (c & 0xf0) == 0xe0
    ELSE IF BitAnd(c, 248) = 240 THEN 4     \* (c & 0xf8) == 0xf0
    ELSE IF BitAnd(c, 252) = 248 THEN 5     \* (c & 0xfc) == 0xf8
    ELSE IF BitAnd(c, 254) = 252 THEN 6     \* (c & 0xfe) == 0xfc
    ELSE 1                                  \* Invalid byte

\* case UTF8DecodeStart of overflow: the decoder after the call, the
\* Overlay::print calls made (<<overload, argument>>) and the value returned
OverflowStart(d, c) ==
    IF c < 128
    THEN [d |-> d, print |-> << <<"char", c>> >>, ret |-> c]
    ELSE LET count == HeadCount(c) IN
         IF count > 1
         THEN LET mask  == Pow2(7 - count) - 1
                  shift == (count - 1) * 6
              IN  [d |-> [decodeState |-> UTF8DecodeMultibyte,
                          decodeShift |-> shift,
                          decodedChar |-> BitAnd(c, mask) * Pow2(shift)],
                   print |-> <<>>, ret |-> c]
         ELSE [d |-> d, print |-> <<>>, ret |-> c]

\* a multibyte case that returns EOF for a bad byte and prints it when it
\* is a 7-bit character
OverflowMultibyteEOF(d, c) ==
    IF BitAnd(c, 192) = 128
    THEN LET shift == d.decodeShift - 6
             ch    == BitOr(d.decodedChar, BitAnd(c, 63) * Pow2(shift))
         IN  IF shift = 0
             THEN [d |-> [decodeState |-> UTF8DecodeStart,
                          decodeShift |-> shift, decodedChar |-> ch],
                   print |-> << <<"wchar_t", ch>> >>, ret |-> c]
             ELSE [d |-> [d EXCEPT !.decodeShift = shift, !.decodedChar = ch],
                   print |-> <<>>, ret |-> c]
    ELSE [d |-> [d EXCEPT !.decodeState = UTF8DecodeStart],
          print |-> IF c < 128 THEN << <<"char", c>> >> ELSE <<>>,
          ret |-> -1]

\* a multibyte case that skips a bad byte without resetting the decoder
OverflowMultibyteStuck(d, c) ==
    IF BitAnd(c, 192) = 128
    THEN LET shift == d.decodeShift - 6
             ch    == BitOr(d.decodedChar, BitAnd(c, 63) * Pow2(shift))
         IN  IF shift = 0
             THEN [d |-> [decodeState |-> UTF8DecodeStart,
                          decodeShift |-> shift, decodedChar |-> ch],
                   print |-> << <<"wchar_t", ch>> >>, ret |-> c]
             ELSE [d |-> [d EXCEPT !.decodeShift = shift, !.decodedChar = ch],
                   print |-> <<>>, ret |-> c]
    ELSE [d |-> d, print |-> <<>>, ret |-> c]

\* case UTF8DecodeMultibyte of overflow
OverflowMultibyte(d, c) ==
    IF BitAnd(c, 192) = 128                \* (c & 0xc0) == 0x80
    THEN LET shift == d.decodeShift - 6
             ch    == BitOr(d.decodedChar, BitAnd(c, 63) * Pow2(shift))
         IN  IF shift = 0
             THEN [d |-> [decodeState |-> UTF8DecodeStart,
                          decodeShift |-> shift, decodedChar |-> ch],
                   print |-> << <<"wchar_t", ch>> >>, ret |-> c]
             ELSE [d |-> [d EXCEPT !.decodeShift = shift, !.decodedChar = ch],
                   print |-> <<>>, ret |-> c]
    ELSE [d |-> [d EXCEPT !.decodeState = UTF8DecodeStart],
          print |-> <<>>, ret |-> c]

\* int OverlayStreamBuf::overflow(int c); overlay is set by Overlay's
\* constructor and never cleared
Overflow(d, c) ==
    IF d.decodeState = UTF8DecodeStart
    THEN OverflowStart(d, c)
    ELSE OverflowMultibyte(d, c)

----------------------------------------------------------------------------
(* Frustum.  frustum.h declares the class; the bodies of its constructor,   *)
(* test and testSphere are in celmath/frustum.cpp, which is not among the   *)
(* sources, and are taken from the specification of the frustum culler: six *)
(* planes with inward normals, a point inside iff its signed distance to    *)
(* every plane is non-negative, the camera at the origin looking down -z.   *)
(* A plane is [n, k]: the signed distance of x is (n . x + k) / |n|.  The   *)
(* model keeps n . x + k and |n|^2 as integers and compares squares.        *)

\* enum { Bottom, Top, Left, Right, Near, Far } of Frustum
Frustum_Bottom == 0
Frustum_Top    == 1
Frustum_Left   == 2
Frustum_Right  == 3
Frustum_Near   == 4
Frustum_Far    == 5

\* enum Aspect { Outside, Inside, Intersect }
Outside   == 0
Inside    == 1
Intersect == 2

Dot(a, b) == a[1] * b[1] + a[2] * b[2] + a[3] * b[3]

\* |n| * (signed distance of x to plane p)
ScaledDistance(p, x) == Dot(p.n, x) + p.k

\* Frustum::Frustum(fov, aspectRatio, nearDist [, farDist]).
\* tan(fov / 2) = hn / hd and aspectRatio = an / ad are given as fractions;
\* far = 0 stands for the constructor without farDist (infinite).
\* a frustum whose near plane faces the camera
NewFrustumNearFlipped(q) ==
    [ planes |-> [i \in 0..5 |->
        CASE i = Frustum_Bottom -> [n |-> <<0,  q.hd, -q.hn>>, k |-> 0]
          [] i = Frustum_Top    -> [n |-> <<0, -q.hd, -q.hn>>, k |-> 0]
          [] i = Frustum_Left   -> [n |-> << q.hd * q.ad, 0, -(q.hn * q.an)>>, k |-> 0]
          [] i = Frustum_Right  -> [n |-> <<-(q.hd * q.ad), 0, -(q.hn * q.an)>>, k |-> 0]
          [] i = Frustum_Near   -> [n |-> <<0, 0, 1>>, k |-> q.near]
          [] i = Frustum_Far    -> [n |-> <<0, 0, 1>>, k |-> q.far] ],
      infinite |-> (q.far = 0) ]

NewFrustum(q) ==
    [ planes |-> [i \in 0..5 |->
        CASE i = Frustum_Bottom -> [n |-> <<0,  q.hd, -q.hn>>, k |-> 0]
          [] i = Frustum_Top    -> [n |-> <<0, -q.hd, -q.hn>>, k |-> 0]
          [] i = Frustum_Left   -> [n |-> << q.hd * q.ad, 0, -(q.hn * q.an)>>, k |-> 0]
          [] i = Frustum_Right  -> [n |-> <<-(q.hd * q.ad), 0, -(q.hn * q.an)>>, k |-> 0]
          [] i = Frustum_Near   -> [n |-> <<0, 0, -1>>, k |-> -q.near]
          [] i = Frustum_Far    -> [n |-> <<0, 0, 1>>, k |-> q.far] ],
      infinite |-> (q.far = 0) ]

\* the planes the tests examine, in the order they examine them
PlaneOrder(f) ==
    IF f.infinite THEN <<Frustum_Bottom, Frustum_Top, Frustum_Left, Frustum_Right, Frustum_Near>>
    ELSE <<Frustum_Bottom, Frustum_Top, Frustum_Left, Frustum_Right, Frustum_Near, Frustum_Far>>

\* a test that lets points on a plane fall outside
TestFromStrict(f, order, point, i) ==
    IF \E j \in DOMAIN order : ScaledDistance(f.planes[order[j]], point) <= 0
    THEN Outside ELSE Inside

\* Frustum::test(point): Outside at the first plane with a negative
\* distance, else Inside
RECURSIVE TestFrom(_, _, _, _)
TestFrom(f, order, point, i) ==
    IF i > Len(order) THEN Inside
    ELSE IF ScaledDistance(f.planes[order[i]], point) < 0 THEN Outside
    ELSE TestFrom(f, order, point, i + 1)

Test(f, point) == TestFrom(f, PlaneOrder(f), point, 1)

\* distance < -radius, for radius >= 0
BeyondRadius(p, center, radius) ==
    LET s == ScaledDistance(p, center)
    IN  s < 0 /\ s * s > radius * radius * Dot(p.n, p.n)

\* |distance| <= radius
WithinRadius(p, center, radius) ==
    LET s == ScaledDistance(p, center)
    IN  s * s <= radius * radius * Dot(p.n, p.n)

\* a testSphere that answers at the first plane the sphere touches
RECURSIVE SphereFromFirstHit(_, _, _, _, _, _)
SphereFromFirstHit(f, order, center, radius, i, hits) ==
    IF i > Len(order) THEN Inside
    ELSE LET p == f.planes[order[i]]
         IN  IF BeyondRadius(p, center, radius) THEN Outside
             ELSE IF WithinRadius(p, center, radius) THEN Intersect
             ELSE SphereFromFirstHit(f, order, center, radius, i + 1, hits)

\* Frustum::testSphere(center, radius): Outside at the first plane with
\* distance < -radius; planes with |distance| <= radius are remembered in
\* hits, and Intersect is returned only after no plane gave Outside
RECURSIVE TestSphereFrom(_, _, _, _, _, _)
TestSphereFrom(f, order, center, radius, i, hits) ==
    IF i > Len(order)
    THEN IF hits = {} THEN Inside ELSE Intersect
    ELSE LET p == f.planes[order[i]]
         IN  IF BeyondRadius(p, center, radius) THEN Outside
             ELSE TestSphereFrom(f, order, center, radius, i + 1,
                      IF WithinRadius(p, center, radius)
                      THEN hits \cup {order[i]} ELSE hits)

TestSphere(f, center, radius) ==
    TestSphereFrom(f, PlaneOrder(f), center, radius, 1, {})

----------------------------------------------------------------------------
(* Renderer::Annotation.  render.h declares the struct and its operator<;   *)
(* the body of the operator and the sort of the depth-sorted pool are in    *)
(* celengine/render.cpp, which is not among the sources, and are taken from *)
(* the specification: the order is by view-space depth alone, farthest      *)
(* first.  position is in view space, the camera looking down -z: the       *)
(* farther annotation has the smaller position.z.                           *)

\* an order by size, then depth
AnnotationLessBySize(a, b) ==
    \/ a.size < b.size
    \/ a.size = b.size /\ a.position[3] < b.position[3]

\* bool Renderer::Annotation::operator<(const Annotation&) const
AnnotationLess(a, b) == a.position[3] < b.position[3]

\* what std::sort with operator< can leave: an arrangement in which no
\* element is less than one before it
Sorted(pool) ==
    { [i \in DOMAIN pool |-> pool[pi[i]]] : pi \in
        { pi \in Permutations(DOMAIN pool) :
            \A i, j \in DOMAIN pool :
                i < j => ~AnnotationLess(pool[pi[j]], pool[pi[i]]) } }

----------------------------------------------------------------------------
(* Construction *)

\* what face->size->metrics gives TextureFont::load
FT_Ascender  == 3
FT_Descender == 1

\* TextureFontPrivate::TextureFontPrivate and the OpenGL context it finds;
\* m_texName and m_MVP have no initializer
NewFont(maxTex) ==
    [impl |-> [ m_prog |-> 0, m_maxAscent |-> 0, m_maxDescent |-> 0,
                m_texWidth |-> 0, m_texHeight |-> 0,
                m_texName |-> IF uninit = "zero" THEN 0 ELSE 9,
                m_glyphs |-> <<>>, m_maxTextureSize |-> maxTex,
                m_commonGlyphsCount |-> 0, m_inserted |-> 0,
                m_MVP |-> "unset", m_shaderInUse |-> FALSE,
                m_fontVertices |-> 0 ],
     gl   |-> [ boundTex |-> 0, program |-> 0, uniformMVP |-> "unset",
                lastDraw |-> 0 ]]

\* TextureFont* TextureFont::load(...), when it gives a font
LoadFont(maxTex) ==
    With(BuildAtlas(NewFont(maxTex), TRUE).m, LAMBDA m :
        [m EXCEPT !.impl.m_maxAscent = FT_Ascender,
                  !.impl.m_maxDescent = FT_Descender])

\* The file as FreeType finds it: face = [newFaceOk, scalable, setSizeOk].
\* a load that hands out the font although buildAtlas failed
LoadUnchecked(maxTex, face, genOk) ==
    IF ~face.newFaceOk
    THEN [font |-> 0, built |-> FALSE, m |-> NewFont(maxTex),
          steps |-> <<"FT_New_Face">>]
    ELSE IF ~face.scalable
    THEN [font |-> 0, built |-> FALSE, m |-> NewFont(maxTex),
          steps |-> <<"FT_New_Face", "FT_IS_SCALABLE">>]
    ELSE IF ~face.setSizeOk
    THEN [font |-> 0, built |-> FALSE, m |-> NewFont(maxTex),
          steps |-> <<"FT_New_Face", "FT_IS_SCALABLE", "FT_Set_Char_Size">>]
    ELSE With(BuildAtlas(NewFont(maxTex), genOk), LAMBDA b :
         [font  |-> 1, built |-> TRUE,
          m     |-> [b.m EXCEPT !.impl.m_maxAscent = FT_Ascender,
                                !.impl.m_maxDescent = FT_Descender],
          steps |-> <<"FT_New_Face", "FT_IS_SCALABLE", "FT_Set_Char_Size",
                      "buildAtlas">>])

\* TextureFont* TextureFont::load(const Renderer*, const fs::path&, int, int, int)
\* font: 0 is nullptr; built: a TextureFont was constructed, m holds it;
\* steps: the calls that can fail, in the order made
Load(maxTex, face, genOk) ==
    IF ~face.newFaceOk
    THEN [font |-> 0, built |-> FALSE, m |-> NewFont(maxTex),
          steps |-> <<"FT_New_Face">>]
    ELSE IF ~face.scalable
    THEN [font |-> 0, built |-> FALSE, m |-> NewFont(maxTex),
          steps |-> <<"FT_New_Face", "FT_IS_SCALABLE">>]
    ELSE IF ~face.setSizeOk
    THEN [font |-> 0, built |-> FALSE, m |-> NewFont(maxTex),
          steps |-> <<"FT_New_Face", "FT_IS_SCALABLE", "FT_Set_Char_Size">>]
    ELSE With(BuildAtlas(NewFont(maxTex), genOk), LAMBDA b :
         IF ~b.ok
         THEN [font |-> 0, built |-> TRUE, m |-> b.m,
               steps |-> <<"FT_New_Face", "FT_IS_SCALABLE", "FT_Set_Char_Size",
                           "buildAtlas">>]
         ELSE [font  |-> 1, built |-> TRUE,
               m     |-> [b.m EXCEPT !.impl.m_maxAscent = FT_Ascender,
                                     !.impl.m_maxDescent = FT_Descender],
               steps |-> <<"FT_New_Face", "FT_IS_SCALABLE", "FT_Set_Char_Size",
                           "buildAtlas">>])

\* TextureFont* LoadTextureFont(const Renderer*, const fs::path&, int, int, int)
\* lib: the static FT_Library ft, 0 for nullptr; initOk: FT_Init_FreeType
\* succeeds
LoadTextureFont(lib, initOk, maxTex, face, genOk) ==
    IF lib = 0 /\ ~initOk
    THEN [font |-> 0, built |-> FALSE, m |-> NewFont(maxTex), ft |-> 0,
          steps |-> <<"FT_Init_FreeType">>]
    ELSE With(Load(maxTex, face, genOk), LAMBDA r :
         [font |-> r.font, built |-> r.built, m |-> r.m, ft |-> 1,
          steps |-> (IF lib = 0 THEN <<"FT_Init_FreeType">> ELSE <<>>) \o r.steps])

\* Overlay::Overlay(Renderer& r)
NewOverlay ==
    [ global |-> [x |-> 0, y |-> 0], posStack |-> <<>>,
      xoffset |-> 0, yoffset |-> 0, textBlock |-> 0, font |-> 0,
      useTexture |-> FALSE, fontChanged |-> FALSE, mvp |-> "mvp" ]

NoGlyphCall == [ch |-> -1, fallback |-> -1]
NoCall      == [op |-> "none"]
NoLoad      == [ret |-> -1]
NoTracked   == [ch |-> -1, fallback |-> -1, metrics |-> Metrics(ZeroGlyph), glyphs |-> 0]
NoOp        == [op |-> "none", c |-> 0, calls |-> <<>>, blk |-> <<>>]
NoOverflow  == [c |-> -1, r |-> -1, pre |-> UTF8DecodeStart, nprint |-> 0]

----------------------------------------------------------------------------
(* The glyph table: getGlyph requests on a loaded font.                     *)

\* the code points requested, in and outside the pre-loaded blocks
ReqChars  == {0, 65, 233}
Fallbacks == {63, 976}
\* the fonts: which of these code points the face cannot rasterize
FailSets  == { {}, {0}, {65}, {63, 233}, {233, 976} }
MaxTextureSizes == {64}   \* GL_MAX_TEXTURE_SIZE

\* the threads that call LoadTextureFont; none has called yet
Threads == {1, 2}

Idle == [pc |-> "idle", ret |-> -1, calls |-> 0]

InitThreads ==
    /\ callers = [t \in Threads |-> Idle]
    /\ ftInits = 0

\* the colours passed to setColor; no colour was set yet
Colors == {"white", "red"}

InitColor ==
    /\ colorAttrib = "default"
    /\ staleColored = 0

NoFrustumParams == [hn |-> 0, hd |-> 1, an |-> 1, ad |-> 1, near |-> 0, far |-> 0]
NoTest == [op |-> "none"]

\* the pools of annotations are empty at the start of a frame
InitAnnotations ==
    /\ depthSortedAnnotations = <<>>
    /\ annotationsSorted = FALSE

\* no Frustum has been constructed
InitScene ==
    /\ frustum = [params |-> NoFrustumParams, f |-> NewFrustum(NoFrustumParams)]
    /\ lastTest = NoTest
    /\ InitAnnotations
    /\ fontBound = FALSE
    /\ InitThreads
    /\ InitColor

InitDecoder ==
    /\ decodeState = UTF8DecodeStart
    /\ decodedChar = 0
    /\ decodeShift = 0
    /\ ret = NoOverflow
    /\ stream = <<>>
    /\ printed = <<>>
    /\ pending = <<>>
    /\ written = <<>>
    /\ clean = TRUE

InitOverlay ==
    /\ ov = NewOverlay
    /\ blockLog = <<>>
    /\ lastOp = NoOp
    /\ crashed = FALSE

InitFontObs ==
    /\ lastReq = NoGlyphCall
    /\ lastRet = ZeroGlyph
    /\ lastRebuilt = FALSE
    /\ tracked = NoTracked
    /\ requested = {}
    /\ lastCall = NoCall
    /\ staleQuads = 0
    /\ ft = 1
    /\ lastLoad = NoLoad

InitFont ==
    /\ ftFail \in FailSets
    /\ uninit \in UninitKinds
    /\ shaderOk = TRUE
    /\ \E maxTex \in MaxTextureSizes :
          \E m \in {LoadFont(maxTex)} : impl = m.impl /\ gl = m.gl
    /\ InitFontObs
    /\ InitOverlay
    /\ InitDecoder
    /\ InitScene

\* a call of getGlyph(ch, fallback)
\* track: remember this call, to compare later calls with it
GetGlyphCall(ch, fallback, genOk, track) ==
    \E r \in {GetGlyph([impl |-> impl, gl |-> gl], ch, fallback, genOk)} :
        /\ impl' = r.m.impl
        /\ gl' = r.m.gl
        /\ lastReq' = [ch |-> ch, fallback |-> fallback]
        /\ lastRet' = r.g
        /\ lastRebuilt' = r.rebuilt
        /\ tracked' = IF track /\ tracked = NoTracked
                      THEN [ch |-> ch, fallback |-> fallback,
                            metrics |-> Metrics(r.g), glyphs |-> Len(impl.m_glyphs)]
                      ELSE tracked
        /\ UNCHANGED <<sceneVars, ftFail, uninit, shaderOk, apiVars, loadVars, overlayVars,
                       decoderVars>>

NextFont ==
    \E ch \in ReqChars, fallback \in Fallbacks, genOk \in BOOLEAN :
        \E track \in (IF tracked = NoTracked THEN BOOLEAN ELSE {FALSE}) :
            GetGlyphCall(ch, fallback, genOk, track)

SpecFont == InitFont /\ [][NextFont]_vars

----------------------------------------------------------------------------
(* The atlas: getGlyph(wchar_t) requests on fonts loaded under a small and  *)
(* a large texture limit.  The model's glyph bitmaps are at most 3 x 2, so  *)
(* a limit of 8 stands to them as a limit of 1024 to bitmaps of 300 pixels. *)

AtlasChars        == {0, 65, 233, 976}
AtlasFails        == { {}, {65}, {976} }
AtlasTextureSizes == {8, 64}

InitAtlas ==
    /\ ftFail \in AtlasFails
    /\ uninit \in UninitKinds
    /\ shaderOk = TRUE
    /\ \E maxTex \in AtlasTextureSizes :
          \E m \in {LoadFont(maxTex)} : impl = m.impl /\ gl = m.gl
    /\ InitFontObs
    /\ InitOverlay
    /\ InitDecoder
    /\ InitScene

\* a call of getGlyph(ch)
GetGlyph1Call(ch, genOk) ==
    \E r \in {GetGlyph1([impl |-> impl, gl |-> gl], ch, genOk)} :
        /\ impl' = r.m.impl
        /\ gl' = r.m.gl
        /\ lastCall' = [op |-> "getGlyph", ch |-> ch, ret |-> r.g,
                        rebuilt |-> r.rebuilt,
                        glyphs |-> Len(impl.m_glyphs),
                        first |-> ch \notin requested]
        /\ requested' = requested \cup {ch}
        /\ UNCHANGED <<sceneVars, ftFail, uninit, shaderOk, lastReq, lastRet, lastRebuilt,
                       tracked, staleQuads, loadVars, overlayVars, decoderVars>>

NextAtlas ==
    \E ch \in AtlasChars, genOk \in BOOLEAN : GetGlyph1Call(ch, genOk)

SpecAtlas == InitAtlas /\ [][NextAtlas]_vars

----------------------------------------------------------------------------
(* The insertions: getGlyph(wchar_t) requests on a font that has already    *)
(* inserted up to MaxPrefilled glyphs from outside the common blocks.       *)

MaxPrefilled == 9     \* glyphs inserted before the requests observed here

FirstPrefilled == 1000   \* the code points of the earlier insertions
InsertChars    == {65, 2000, 2001, 2002}
InsertFails    == { {2002} }

\* the font after getGlyph(FirstPrefilled), ..., getGlyph(FirstPrefilled + k - 1)
RECURSIVE Prefilled(_, _)
Prefilled(m, k) ==
    IF k = 0 THEN m
    ELSE With(Prefilled(m, k - 1), LAMBDA m1 :
              GetGlyph1(m1, FirstPrefilled + k - 1, TRUE).m)

InitInsert ==
    /\ ftFail \in InsertFails
    /\ uninit = "zero"
    /\ shaderOk = TRUE
    /\ \E maxTex \in MaxTextureSizes, k \in 0..MaxPrefilled :
          \E m \in {Prefilled(LoadFont(maxTex), k)} : impl = m.impl /\ gl = m.gl
    /\ InitFontObs
    /\ InitOverlay
    /\ InitDecoder
    /\ InitScene

NextInsert ==
    \E ch \in InsertChars, genOk \in BOOLEAN : GetGlyph1Call(ch, genOk)

SpecInsert == InitInsert /\ [][NextInsert]_vars

----------------------------------------------------------------------------
(* The batch: the render, getWidth and flush calls of an application on a   *)
(* loaded TextureFont.  The batch is empty after load, or holds the quads   *)
(* of 16383 earlier render calls, one short of what a 16-bit index can      *)
(* address.  The face does not rasterize U+20AC, nor U+0000 or '?'.        *)

MaxBatch == 2   \* quads appended on top of what was pending at the start

BatchChars     == {0, 32, 65, 233}
BatchStrings   == { <<65>>, <<65, 32>>, <<8364, 65>>, <<65, Invalid, 65>>, <<233>> }
BatchFails     == { {0, 8364}, {63, 8364} }
BatchOffsets   == {0, 5}
PendingAtStart == {0, 4 * 16383}

InitBatch ==
    /\ ftFail \in BatchFails
    /\ uninit \in UninitKinds
    /\ shaderOk = TRUE
    /\ \E maxTex \in MaxTextureSizes, n \in PendingAtStart :
          \E m \in {LoadFont(maxTex)} :
              /\ impl = [m.impl EXCEPT !.m_fontVertices = n]
              /\ gl = m.gl
    /\ InitFontObs
    /\ InitOverlay
    /\ InitDecoder
    /\ InitScene

\* the render calls are made while the batch has room
CanAppend ==
    \E n \in PendingAtStart :
        impl.m_fontVertices \in n .. (n + 4 * MaxBatch - 1)

\* the font and the context at a call; lastDraw = -1: the call has not drawn
AtCall == [impl |-> impl, gl |-> [gl EXCEPT !.lastDraw = -1]]

\* the state a call leaves, and what it did:
\*   pre, tex     m_fontVertices.size() and m_texName at the call
\*   gs           the metrics of the glyphs getGlyph gave it
\*   draw         the count glDrawElements got, -1 without a draw
\*   prog, mvp    the program in use and its MVPMatrix uniform at the call
\*   set, stale   the matrix of the latest setMVPMatrix before the call and
\*                the vertices appended before that setMVPMatrix
Called(op, arg, m1, r, gs) ==
    /\ impl' = m1.impl
    /\ gl' = [m1.gl EXCEPT !.lastDraw = IF @ = -1 THEN gl.lastDraw ELSE @]
    /\ lastCall' = [op |-> op, arg |-> arg, ret |-> r, gs |-> gs,
                    pre |-> impl.m_fontVertices, tex |-> impl.m_texName,
                    draw |-> m1.gl.lastDraw,
                    prog |-> gl.program, mvp |-> gl.uniformMVP,
                    set |-> impl.m_MVP, stale |-> staleQuads,
                    same |-> (m1.impl = impl /\ m1.gl = AtCall.gl)]
    /\ UNCHANGED <<sceneVars, ftFail, uninit, shaderOk, lastReq, lastRet, lastRebuilt,
                   tracked, requested, loadVars, overlayVars, decoderVars>>

\* font->render(ch, xoffset, yoffset)
DoRender(ch, genOk) ==
    /\ CanAppend
    /\ \E r \in {RenderCh(AtCall, ch, 0, 0, genOk)} :
       \E g \in {GetGlyph(AtCall, ch, QuestionMark, genOk).g} :
           Called("render", ch, r.m, r.ret, <<Metrics(g)>>)
    /\ UNCHANGED staleQuads

\* font->render(s, x, y)
DoRenderString(s, x, genOk) ==
    /\ CanAppend
    /\ \E r \in {RenderString(AtCall, s, x, 0, genOk)} :
           Called("renderString", <<s, x>>, r.m, r.ret, r.gs)
    /\ UNCHANGED staleQuads

\* font->getWidth(s)
DoGetWidth(s, genOk) ==
    /\ \E r \in {GetWidth(AtCall, s, genOk)} :
           Called("getWidth", s, r.m, r.ret, <<>>)
    /\ UNCHANGED staleQuads

\* font->flush()
DoFlush ==
    /\ \E m1 \in {Flush(AtCall)} :
           /\ Called("flush", 0, m1, 0, <<>>)
           /\ staleQuads' = IF m1.gl.lastDraw = -1 THEN staleQuads ELSE 0

\* font->bind()
DoBind ==
    /\ \E m1 \in {Bind(AtCall)} : Called("bind", 0, m1, 0, <<>>)
    /\ UNCHANGED staleQuads

\* font->setMVPMatrix(mvp)
DoSetMVPMatrix(mvp) ==
    /\ \E m1 \in {SetMVPMatrix(AtCall, mvp)} :
           /\ Called("setMVPMatrix", mvp, m1, 0, <<>>)
           /\ staleQuads' = m1.impl.m_fontVertices

\* font->unbind()
DoUnbind ==
    /\ \E m1 \in {Unbind(AtCall)} :
           /\ Called("unbind", 0, m1, 0, <<>>)
           /\ staleQuads' = IF m1.gl.lastDraw = -1 THEN staleQuads ELSE 0

NextBatch ==
    \/ \E ch \in BatchChars, genOk \in BOOLEAN : DoRender(ch, genOk)
    \/ \E s \in BatchStrings, x \in BatchOffsets, genOk \in BOOLEAN :
           DoRenderString(s, x, genOk)
    \/ \E s \in BatchStrings, genOk \in BOOLEAN : DoGetWidth(s, genOk)
    \/ DoFlush

SpecBatch == InitBatch /\ [][NextBatch]_vars

----------------------------------------------------------------------------
(* The shader: bind, setMVPMatrix, unbind and flush around render calls,    *)
(* with and without a "text" shader program.                                *)

ShaderChars == {65}
Matrices    == {"a", "b"}

InitShader ==
    /\ ftFail = {}
    /\ uninit = "zero"
    /\ shaderOk \in BOOLEAN
    /\ \E maxTex \in MaxTextureSizes, n \in PendingAtStart :
          \E m \in {LoadFont(maxTex)} :
              /\ impl = [m.impl EXCEPT !.m_fontVertices = n]
              /\ gl = m.gl
    /\ InitFontObs
    /\ InitOverlay
    /\ InitDecoder
    /\ InitScene

NextShader ==
    \/ \E ch \in ShaderChars : DoRender(ch, TRUE)
    \/ DoFlush
    \/ DoBind
    \/ \E mvp \in Matrices : DoSetMVPMatrix(mvp)
    \/ DoUnbind

SpecShader == InitShader /\ [][NextShader]_vars

----------------------------------------------------------------------------
(* Loading: the calls of LoadTextureFont and TextureFont::load, before any  *)
(* font exists.  impl and gl hold the TextureFont the latest call built.    *)

Faces == [newFaceOk : BOOLEAN, scalable : BOOLEAN, setSizeOk : BOOLEAN]

InitLoad ==
    /\ ftFail \in AtlasFails
    /\ uninit \in UninitKinds
    /\ shaderOk = TRUE
    /\ \E maxTex \in AtlasTextureSizes :
          \E m \in {NewFont(maxTex)} : impl = m.impl /\ gl = m.gl
    /\ lastReq = NoGlyphCall
    /\ lastRet = ZeroGlyph
    /\ lastRebuilt = FALSE
    /\ tracked = NoTracked
    /\ requested = {}
    /\ lastCall = NoCall
    /\ staleQuads = 0
    /\ ft = 0
    /\ lastLoad = NoLoad
    /\ InitOverlay
    /\ InitDecoder
    /\ InitScene

Loaded(fn, initOk, face, genOk, r) ==
    /\ lastLoad' = [fn |-> fn, lib |-> ft, initOk |-> initOk, face |-> face,
                    genOk |-> genOk, ret |-> r.font, steps |-> r.steps]
    /\ impl' = IF r.built THEN r.m.impl ELSE impl
    /\ gl' = IF r.built THEN r.m.gl ELSE gl
    /\ UNCHANGED <<sceneVars, ftFail, uninit, shaderOk, lastReq, lastRet, lastRebuilt,
                   tracked, apiVars, overlayVars, decoderVars>>

\* LoadTextureFont(r, filename, index, size, dpi)
DoLoadTextureFont(initOk, face, genOk) ==
    \E r \in {LoadTextureFont(ft, initOk, impl.m_maxTextureSize, face, genOk)} :
        /\ Loaded("LoadTextureFont", initOk, face, genOk, r)
        /\ ft' = r.ft

\* TextureFont::load(r, path, index, size, dpi); FT_New_Face needs the
\* library
DoLoad(face, genOk) ==
    /\ ft = 0 => ~face.newFaceOk
    /\ \E r \in {Load(impl.m_maxTextureSize, face, genOk)} :
           Loaded("load", TRUE, face, genOk, r)
    /\ UNCHANGED ft

NextLoad ==
    \/ \E initOk \in BOOLEAN, face \in Faces, genOk \in BOOLEAN :
           DoLoadTextureFont(initOk, face, genOk)
    \/ \E face \in Faces, genOk \in BOOLEAN : DoLoad(face, genOk)

SpecLoad == InitLoad /\ [][NextLoad]_vars

----------------------------------------------------------------------------
(* The threads: LoadTextureFont calls whose statements interleave.  A call  *)
(* tests ft, initialises the library if the test found nullptr, and loads   *)
(* the font; nothing in the function orders one thread's statements with    *)
(* another's.  The TextureFont a call returns is its own object: the call   *)
(* is followed by its return value.                                         *)

MaxCalls == 2     \* LoadTextureFont calls per thread

ThreadAt(t, pc, r) ==
    /\ callers' = [callers EXCEPT ![t].pc = pc, ![t].ret = r]
    /\ UNCHANGED <<ftVars, fontVars, apiVars, lastLoad, overlayVars,
                   decoderVars, frustumVars, annotVars, fontBound, colorVars>>

\* if (ft == nullptr)
TestFt(t) ==
    /\ callers[t].pc = "idle"
    /\ callers[t].calls < MaxCalls
    /\ callers' = [callers EXCEPT ![t].pc = IF ft = 0 THEN "init" ELSE "load",
                                  ![t].ret = -1,
                                  ![t].calls = @ + 1]
    /\ UNCHANGED <<ftVars, fontVars, apiVars, loadVars, overlayVars,
                   decoderVars, frustumVars, annotVars, fontBound, ftInits,
                   colorVars>>

\* if (FT_Init_FreeType(&ft)) { cerr << ...; return nullptr; }
InitFreeType(t, initOk) ==
    /\ callers[t].pc = "init"
    /\ IF initOk
       THEN /\ ft' = 1
            /\ ftInits' = ftInits + 1
            /\ ThreadAt(t, "load", -1)
       ELSE /\ UNCHANGED <<ft, ftInits>>
            /\ ThreadAt(t, "failed", 0)

\* return TextureFont::load(r, nameonly, index, size, dpi)
LoadAndReturn(t, face, genOk) ==
    /\ callers[t].pc = "load"
    /\ \E r \in {Load(impl.m_maxTextureSize, face, genOk)} :
           ThreadAt(t, "returned", r.font)
    /\ UNCHANGED <<ft, ftInits>>

\* the caller goes on
Returned(t) ==
    /\ callers[t].pc \in {"failed", "returned"}
    /\ ThreadAt(t, "idle", callers[t].ret)
    /\ UNCHANGED <<ft, ftInits>>

NextThreads ==
    \E t \in Threads :
        \/ TestFt(t)
        \/ \E initOk \in BOOLEAN : InitFreeType(t, initOk)
        \/ \E face \in Faces, genOk \in BOOLEAN : LoadAndReturn(t, face, genOk)
        \/ Returned(t)

SpecThreads == InitLoad /\ [][NextThreads]_vars

----------------------------------------------------------------------------
(* The frustum: test and testSphere calls on a constructed Frustum.         *)
(* Lengths are in half units, so that the point (0, 0, 0.5) of the          *)
(* scenario fov = 90 degrees, aspect = 1, near = 1, far = 1000 is (0, 0, 1) *)
(* against near = 2, far = 2000.                                            *)

ScenarioFrustum == [hn |-> 1, hd |-> 1, an |-> 1, ad |-> 1, near |-> 2, far |-> 2000]

FrustumParams ==
    { ScenarioFrustum,
      [hn |-> 1, hd |-> 1, an |-> 1, ad |-> 1, near |-> 1, far |-> 0],
      [hn |-> 1, hd |-> 2, an |-> 2, ad |-> 1, near |-> 1, far |-> 6],
      [hn |-> 2, hd |-> 1, an |-> 1, ad |-> 2, near |-> 2, far |-> 4] }

Apex == <<0, 0, 0>>

TestPoints ==
    { <<0, 0, -1000>>, <<0, 0, 1000>>, <<0, 0, 1>>, Apex }
    \cup { <<x, y, z>> : x \in {-3, 0, 2}, y \in {-1, 0, 4}, z \in {-7, -4, -2, -1} }

Radii == {0, 1, 3}

InitFrustum ==
    /\ ftFail = {}
    /\ uninit = "zero"
    /\ shaderOk = TRUE
    /\ \E maxTex \in MaxTextureSizes :
          \E m \in {LoadFont(maxTex)} : impl = m.impl /\ gl = m.gl
    /\ InitFontObs
    /\ InitOverlay
    /\ InitDecoder
    /\ \E q \in FrustumParams : frustum = [params |-> q, f |-> NewFrustum(q)]
    /\ lastTest = NoTest
    /\ InitAnnotations
    /\ fontBound = FALSE
    /\ InitThreads
    /\ InitColor

\* frustum.test(point)
DoTest(point) ==
    /\ lastTest' = [op |-> "test", point |-> point, radius |-> 0,
                    result |-> Test(frustum.f, point)]
    /\ UNCHANGED <<ftVars, fontVars, apiVars, loadVars, overlayVars,
                   decoderVars, frustum, annotVars, fontBound, threadVars, colorVars>>

\* frustum.testSphere(center, radius)
DoTestSphere(center, radius) ==
    /\ lastTest' = [op |-> "testSphere", point |-> center, radius |-> radius,
                    result |-> TestSphere(frustum.f, center, radius)]
    /\ UNCHANGED <<ftVars, fontVars, apiVars, loadVars, overlayVars,
                   decoderVars, frustum, annotVars, fontBound, threadVars, colorVars>>

NextFrustum ==
    \/ \E point \in TestPoints : DoTest(point)
    \/ \E center \in TestPoints, radius \in Radii : DoTestSphere(center, radius)

SpecFrustum == InitFrustum /\ [][NextFrustum]_vars

----------------------------------------------------------------------------
(* The annotations: additions to the depth-sorted pool and its sort.        *)

MaxAnnotations == 3   \* annotations in the pool

AnnotationLabels == {"a", "b"}
AnnotationDepths == {-1, -2, -5}
AnnotationSizes  == {0, 1}

Annotations ==
    [labelText : AnnotationLabels,
     position  : {<<0, 0, z>> : z \in AnnotationDepths},
     size      : AnnotationSizes]

InitAnnotationSpec ==
    /\ ftFail = {}
    /\ uninit = "zero"
    /\ shaderOk = TRUE
    /\ \E maxTex \in MaxTextureSizes :
          \E m \in {LoadFont(maxTex)} : impl = m.impl /\ gl = m.gl
    /\ InitFontObs
    /\ InitOverlay
    /\ InitDecoder
    /\ InitScene

\* addSortedAnnotation(markerRep, labelText, color, position, ...)
AddSortedAnnotation(a) ==
    /\ Len(depthSortedAnnotations) < MaxAnnotations
    /\ depthSortedAnnotations' = Append(depthSortedAnnotations, a)
    /\ annotationsSorted' = FALSE
    /\ UNCHANGED <<ftVars, fontVars, apiVars, loadVars, overlayVars,
                   decoderVars, frustumVars, fontBound, threadVars, colorVars>>

\* std::sort(depthSortedAnnotations.begin(), depthSortedAnnotations.end())
SortAnnotations ==
    /\ depthSortedAnnotations' \in Sorted(depthSortedAnnotations)
    /\ annotationsSorted' = TRUE
    /\ UNCHANGED <<ftVars, fontVars, apiVars, loadVars, overlayVars,
                   decoderVars, frustumVars, fontBound, threadVars, colorVars>>

\* clearAnnotations(depthSortedAnnotations) at the end of the frame
ClearAnnotations ==
    /\ depthSortedAnnotations # <<>>
    /\ depthSortedAnnotations' = <<>>
    /\ annotationsSorted' = FALSE
    /\ UNCHANGED <<ftVars, fontVars, apiVars, loadVars, overlayVars,
                   decoderVars, frustumVars, fontBound, threadVars, colorVars>>

NextAnnotations ==
    \/ \E a \in Annotations : AddSortedAnnotation(a)
    \/ SortAnnotations
    \/ ClearAnnotations

SpecAnnotations == InitAnnotationSpec /\ [][NextAnnotations]_vars

----------------------------------------------------------------------------
(* The overlay: the text calls of an application on an Overlay whose font,  *)
(* when set, is the loaded font.                                            *)

MaxNest     == 1     \* text blocks open at once
MaxX        == 2     \* global.x stays in 0..MaxX
MaxDrop     == 10    \* global.y stays in -MaxDrop..0
MaxOffset   == 3     \* print is called while xoffset < MaxOffset
MaxVertices == 8    \* and while fewer than MaxVertices vertices are pending

PrintChars   == {Newline, 65, 8364}
OverlayFails == { {}, {8364} }
Moves        == { <<2, 0>> }

InitOverlaySpec ==
    /\ ftFail \in OverlayFails
    /\ uninit = "zero"
    /\ shaderOk = TRUE
    /\ \E maxTex \in MaxTextureSizes :
          \E m \in {LoadFont(maxTex)} : impl = m.impl /\ gl = m.gl
    /\ InitFontObs
    /\ InitOverlay
    /\ InitDecoder
    /\ InitScene

Top(q) == q[Len(q)]
Pop(q) == SubSeq(q, 1, Len(q) - 1)

\* the open blocks, all marked as disturbed (a call other than print was made
\* inside them)
Disturbed(log) == [i \in DOMAIN log |-> [log[i] EXCEPT !.dist = TRUE]]

DoSetFont(f) ==
    /\ ~crashed
    /\ \E r \in {SetFont(ov, [impl |-> impl, gl |-> gl], f)} :
          /\ ov' = r.ov
          /\ impl' = r.m.impl
          /\ gl' = r.m.gl
    /\ blockLog' = Disturbed(blockLog)
    /\ lastOp' = [NoOp EXCEPT !.op = "setFont", !.c = f]
    /\ UNCHANGED <<sceneVars, ftFail, uninit, shaderOk, crashed, lastReq, lastRet,
                   lastRebuilt, tracked, apiVars, loadVars,
                   decoderVars>>

DoMoveBy(dx, dy) ==
    /\ ~crashed
    /\ ov.global.x + dx \in 0..MaxX
    /\ ov.global.y + dy \in -MaxDrop..0
    /\ ov' = MoveBy(ov, dx, dy)
    /\ blockLog' = Disturbed(blockLog)
    /\ lastOp' = [NoOp EXCEPT !.op = "moveBy"]
    /\ UNCHANGED <<sceneVars, ftVars, fontVars, apiVars, loadVars, crashed,
                   decoderVars>>

DoBeginText ==
    /\ ~crashed
    /\ ov.textBlock < MaxNest
    /\ \E r \in {BeginText(ov, [impl |-> impl, gl |-> gl])} :
          /\ ov' = r.ov
          /\ impl' = r.m.impl
          /\ gl' = r.m.gl
    /\ blockLog' = Append(Disturbed(blockLog),
                          [x0 |-> ov.global.x, y0 |-> ov.global.y, k |-> 0,
                           dist |-> (ov.font = 0)])
    /\ lastOp' = [NoOp EXCEPT !.op = "beginText"]
    /\ UNCHANGED <<sceneVars, ftFail, uninit, shaderOk, crashed, lastReq, lastRet,
                   lastRebuilt, tracked, apiVars, loadVars,
                   decoderVars>>

DoEndText ==
    /\ ~crashed
    /\ \E r \in {EndText(ov, [impl |-> impl, gl |-> gl])} :
          /\ ov' = r.ov
          /\ IF EndTextDefined(ov)
             THEN impl' = r.m.impl /\ gl' = r.m.gl /\ crashed' = FALSE
             ELSE impl' = impl /\ gl' = gl /\ crashed' = TRUE
    /\ blockLog' = IF blockLog = <<>> THEN blockLog ELSE Pop(blockLog)
    /\ lastOp' = [NoOp EXCEPT !.op = "endText",
                              !.blk = IF blockLog = <<>> THEN <<>>
                                      ELSE <<Top(blockLog)>>]
    /\ UNCHANGED <<sceneVars, ftFail, uninit, shaderOk, lastReq, lastRet,
                   lastRebuilt, tracked, apiVars, loadVars,
                   decoderVars>>

\* what a print of c adds to the record of the innermost open block: the
\* newlines printed in it
Logged(log, c, o) ==
    IF log = <<>> \/ o.font = 0 \/ c # Newline THEN log
    ELSE [log EXCEPT ![Len(log)].k = @ + 1]

\* Overlay::print(wchar_t) or Overlay::print(char), by overload
DoPrint(overload, c, genOk) ==
    /\ ~crashed
    /\ ov.xoffset < MaxOffset
    /\ impl.m_fontVertices < MaxVertices
    /\ (c = Newline /\ ov.textBlock > 0)
          => ov.global.y - (1 + GetHeight(impl)) >= -MaxDrop
    /\ \E r \in {IF overload = "wchar_t"
                  THEN PrintW(ov, [impl |-> impl, gl |-> gl], c, genOk)
                  ELSE PrintC(ov, [impl |-> impl, gl |-> gl], c, genOk)} :
          /\ ov' = r.ov
          /\ impl' = r.m.impl
          /\ gl' = r.m.gl
          /\ lastOp' = [NoOp EXCEPT !.op = "print", !.c = c,
                                    !.calls = r.calls]
    /\ blockLog' = Logged(blockLog, c, ov)
    /\ UNCHANGED <<sceneVars, ftFail, uninit, shaderOk, crashed, lastReq, lastRet,
                   lastRebuilt, tracked, apiVars, loadVars,
                   decoderVars>>

NextOverlay ==
    \/ \E f \in {0, 1} : DoSetFont(f)
    \/ \E d \in Moves : DoMoveBy(d[1], d[2])
    \/ DoBeginText
    \/ DoEndText
    \/ \E overload \in {"wchar_t", "char"}, c \in PrintChars, genOk \in BOOLEAN :
          DoPrint(overload, c, genOk)

SpecOverlay == InitOverlaySpec /\ [][NextOverlay]_vars

----------------------------------------------------------------------------
(* The frames: begin, setFont, beginText, print, setColor and endText over  *)
(* several frames, with the font set or not; fontBound follows the bind and *)
(* unbind calls made on the font.                                           *)

FrameChars == {Newline, 65}

InitFrame ==
    /\ ftFail = {}
    /\ uninit = "zero"
    /\ shaderOk = TRUE
    /\ \E maxTex \in MaxTextureSizes :
          \E m \in {LoadFont(maxTex)} : impl = m.impl /\ gl = m.gl
    /\ InitFontObs
    /\ InitOverlay
    /\ InitDecoder
    /\ InitScene

\* what an Overlay call leaves; same: the cursor, the offsets and the
\* position stack are what they were; changed: setFont has changed the font
\* and print was not called since
FrameCalled(op, c, r, calls, bound) ==
    /\ ov' = r.ov
    /\ impl' = r.m.impl
    /\ gl' = r.m.gl
    /\ fontBound' = bound
    /\ lastOp' = [op |-> op, c |-> c, calls |-> calls, blk |-> <<>>,
                  font |-> ov.font,
                  changed |-> \/ op = "setFont" /\ c # ov.font
                              \/ /\ op # "print"
                                 /\ lastOp.op # "none"
                                 /\ lastOp.changed,
                  same |-> /\ r.ov.global = ov.global
                           /\ r.ov.xoffset = ov.xoffset
                           /\ r.ov.yoffset = ov.yoffset
                           /\ r.ov.posStack = ov.posStack]
    /\ UNCHANGED <<ftFail, uninit, shaderOk, lastReq, lastRet, lastRebuilt,
                   tracked, apiVars, loadVars, blockLog, decoderVars,
                   frustumVars, annotVars, threadVars, colorVars>>

\* overlay.begin()
FrameBegin ==
    /\ ~crashed
    /\ FrameCalled("begin", 0, [ov |-> Begin(ov), m |-> [impl |-> impl, gl |-> gl]],
                   <<>>, fontBound)
    /\ UNCHANGED crashed

\* overlay.setFont(f)
FrameSetFont(f) ==
    /\ ~crashed
    /\ FrameCalled("setFont", f, SetFont(ov, [impl |-> impl, gl |-> gl], f),
                   <<>>, fontBound)
    /\ UNCHANGED crashed

\* overlay.beginText()
FrameBeginText ==
    /\ ~crashed
    /\ ov.textBlock < MaxNest + 1
    /\ \E r \in {BeginText(ov, [impl |-> impl, gl |-> gl])} :
           FrameCalled("beginText", 0, r, <<>>, fontBound \/ ov.font # 0)
    /\ UNCHANGED crashed

\* overlay.endText()
FrameEndText ==
    /\ ~crashed
    /\ \E r \in {EndText(ov, [impl |-> impl, gl |-> gl])} :
           IF EndTextDefined(ov)
           THEN FrameCalled("endText", 0, r, <<>>, FALSE) /\ crashed' = FALSE
           ELSE /\ FrameCalled("endText", 0,
                               [ov |-> r.ov, m |-> [impl |-> impl, gl |-> gl]],
                               <<>>, fontBound)
                /\ crashed' = TRUE

\* overlay.print(c)
FramePrint(c) ==
    /\ ~crashed
    /\ ov.xoffset < MaxOffset
    /\ impl.m_fontVertices < MaxVertices
    /\ \E r \in {PrintW(ov, [impl |-> impl, gl |-> gl], c, TRUE)} :
           /\ r.ov.global.y >= -MaxDrop
           /\ FrameCalled("print", c, r, r.calls,
                          fontBound \/ (ov.font # 0 /\ (~ov.useTexture
                                                         \/ ov.fontChanged)))
    /\ UNCHANGED crashed

\* overlay.setColor(r, g, b, a)
FrameSetColor ==
    /\ ~crashed
    /\ FrameCalled("setColor", 0, SetColor(ov, [impl |-> impl, gl |-> gl]),
                   <<>>, fontBound)
    /\ UNCHANGED crashed

\* overlay.drawRectangle(r)
FrameDrawRectangle(hasTex) ==
    /\ ~crashed
    /\ FrameCalled("drawRectangle", IF hasTex THEN 1 ELSE 0,
                   DrawRectangle(ov, [impl |-> impl, gl |-> gl], hasTex),
                   <<>>, fontBound)
    /\ UNCHANGED crashed

NextFrame ==
    \/ FrameBegin
    \/ \E f \in {0, 1} : FrameSetFont(f)
    \/ FrameBeginText
    \/ FrameEndText
    \/ \E c \in FrameChars : FramePrint(c)
    \/ FrameSetColor
    \/ \E hasTex \in BOOLEAN : FrameDrawRectangle(hasTex)

SpecFrame == InitFrame /\ [][NextFrame]_vars

----------------------------------------------------------------------------
(* The colours: setFont, print and setColor calls on a new Overlay, or on   *)
(* one that has printed 16383 glyphs outside a text block since the last    *)
(* flush of its font.                                                       *)

PrintedAtStart == {0, 16383}

\* the Overlay and its font after setFont(font) and n > 0 calls of print(ch)
AfterPrints(m, n, ch) ==
    With(SetFont(NewOverlay, m, 1), LAMBDA s :
    With(PrintW(s.ov, s.m, ch, TRUE), LAMBDA r :
        [ov |-> [r.ov EXCEPT !.xoffset = n * @],
         m  |-> [r.m EXCEPT !.impl.m_fontVertices = n * @]]))

InitColorSpec ==
    /\ ftFail = {}
    /\ uninit = "zero"
    /\ shaderOk = TRUE
    /\ \E maxTex \in MaxTextureSizes, n \in PrintedAtStart :
          \E r \in {IF n = 0 THEN [ov |-> NewOverlay, m |-> LoadFont(maxTex)]
                     ELSE AfterPrints(LoadFont(maxTex), n, 65)} :
              /\ impl = r.m.impl
              /\ gl = r.m.gl
              /\ ov = r.ov
              /\ fontBound = (n > 0)
    /\ blockLog = <<>>
    /\ lastOp = NoOp
    /\ crashed = FALSE
    /\ InitFontObs
    /\ InitDecoder
    /\ frustum = [params |-> NoFrustumParams, f |-> NewFrustum(NoFrustumParams)]
    /\ lastTest = NoTest
    /\ InitAnnotations
    /\ InitThreads
    /\ InitColor

\* print is called while its line and the batch have room
CanPrint ==
    /\ CanAppend
    /\ \E n \in PrintedAtStart :
           ov.xoffset \in (n * FT_Slot(65).ax) .. (n * FT_Slot(65).ax + MaxOffset - 1)

\* what an Overlay call leaves; pre: the vertices pending at the call,
\* draw: the count glDrawElements got in it, -1 without a draw
ColorCalled(op, c, r, stale) ==
    /\ ov' = r.ov
    /\ impl' = r.m.impl
    /\ gl' = [r.m.gl EXCEPT !.lastDraw = IF @ = -1 THEN gl.lastDraw ELSE @]
    /\ lastOp' = [op |-> op, c |-> c, calls |-> <<>>, blk |-> <<>>,
                  font |-> ov.font, pre |-> impl.m_fontVertices,
                  draw |-> r.m.gl.lastDraw]
    /\ staleColored' = IF r.m.impl.m_fontVertices = 0 THEN 0 ELSE stale
    /\ UNCHANGED <<ftFail, uninit, shaderOk, lastReq, lastRet, lastRebuilt,
                   tracked, apiVars, loadVars, blockLog, crashed, decoderVars,
                   frustumVars, annotVars, fontBound, threadVars>>

\* overlay.setFont(f)
ColorSetFont(f) ==
    /\ ColorCalled("setFont", f, SetFont(ov, AtCall, f), staleColored)
    /\ UNCHANGED colorAttrib

\* overlay.print(c)
ColorPrint(c) ==
    /\ CanPrint
    /\ \E r \in {PrintW(ov, AtCall, c, TRUE)} :
           ColorCalled("print", c, r, staleColored)
    /\ UNCHANGED colorAttrib

\* overlay.setColor(r, g, b, a)
ColorSetColor(c) ==
    /\ \E r \in {SetColor(ov, AtCall)} :
           ColorCalled("setColor", c, r,
                       IF c # colorAttrib /\ ov.font # 0
                       THEN r.m.impl.m_fontVertices ELSE staleColored)
    /\ colorAttrib' = c

NextColor ==
    \/ \E f \in {0, 1} : ColorSetFont(f)
    \/ \E c \in ShaderChars : ColorPrint(c)
    \/ \E c \in Colors : ColorSetColor(c)

SpecColor == InitColorSpec /\ [][NextColor]_vars

----------------------------------------------------------------------------
(* The stream: bytes written to the Overlay, an unbuffered ostream, each    *)
(* byte reaching OverlayStreamBuf::overflow.  The Overlay has its font set. *)

MaxStream == 7     \* bytes written

\* the characters written whole, one of each encoded length, and the bytes
\* written on their own: a continuation byte, a head, an invalid byte
StreamChars == {65, 233, 8364, 128512, 2097152, 2147483647}
RawBytes    == {169, 226, 255}

\* the UTF-8 encoding of cp, in the 1- to 6-byte forms
EncodedSize(cp) ==
    IF      cp < 128      THEN 1
    ELSE IF cp < 2048     THEN 2
    ELSE IF cp < 65536    THEN 3
    ELSE IF cp < 2097152  THEN 4
    ELSE IF cp < 67108864 THEN 5
    ELSE 6

HeadBase(n) == CASE n = 2 -> 192 [] n = 3 -> 224 [] n = 4 -> 240
                 [] n = 5 -> 248 [] n = 6 -> 252

UTF8Encode(cp) ==
    LET n == EncodedSize(cp) IN
    IF n = 1 THEN <<cp>>
    ELSE [i \in 1..n |->
            IF i = 1 THEN HeadBase(n) + (cp \div Pow2(6 * (n - 1)))
            ELSE 128 + ((cp \div Pow2(6 * (n - i))) % 64)]

InitStream ==
    /\ ftFail = {}
    /\ uninit = "zero"
    /\ shaderOk = TRUE
    /\ \E maxTex \in MaxTextureSizes :
          \E m \in {LoadFont(maxTex)} :
             \E r \in {SetFont(NewOverlay, m, 1)} :
                /\ impl = r.m.impl
                /\ gl = r.m.gl
                /\ ov = r.ov
    /\ blockLog = <<>>
    /\ lastOp = NoOp
    /\ crashed = FALSE
    /\ InitFontObs
    /\ InitDecoder
    /\ InitScene

\* the Overlay::print calls of one overflow, by overload
RECURSIVE PrintAll(_, _, _)
PrintAll(o, m, calls) ==
    IF calls = <<>> THEN [ov |-> o, m |-> m]
    ELSE With(IF Head(calls)[1] = "char"
              THEN PrintC(o, m, Head(calls)[2], TRUE)
              ELSE PrintW(o, m, Head(calls)[2], TRUE), LAMBDA r :
              PrintAll(r.ov, r.m, Tail(calls)))

\* sbuf.overflow(c), with what it does to the Overlay and the font
DoOverflow(c) ==
    \E r \in {Overflow([decodeState |-> decodeState,
                        decodedChar |-> decodedChar,
                        decodeShift |-> decodeShift], c)} :
       /\ decodeState' = r.d.decodeState
       /\ decodedChar' = r.d.decodedChar
       /\ decodeShift' = r.d.decodeShift
       /\ ret' = [c |-> c, r |-> r.ret, pre |-> decodeState,
                  nprint |-> Len(r.print)]
       /\ printed' = printed \o [i \in DOMAIN r.print |-> r.print[i][2]]
       /\ stream' = Append(stream, c)
       /\ \E q \in {PrintAll(ov, [impl |-> impl, gl |-> gl], r.print)} :
             /\ ov' = q.ov
             /\ impl' = q.m.impl
             /\ gl' = q.m.gl
       /\ UNCHANGED <<sceneVars, ftFail, uninit, shaderOk, lastReq, lastRet, lastRebuilt,
                      tracked, apiVars, loadVars, blockLog, lastOp,
                      crashed>>

\* a character is written whole: its first byte reaches overflow
WriteChar(cp) ==
    /\ pending = <<>>
    /\ Len(stream) + EncodedSize(cp) <= MaxStream
    /\ DoOverflow(Head(UTF8Encode(cp)))
    /\ pending' = Tail(UTF8Encode(cp))
    /\ written' = Append(written, cp)
    /\ UNCHANGED clean

\* the next byte of the character being written reaches overflow
FeedPending ==
    /\ pending # <<>>
    /\ DoOverflow(Head(pending))
    /\ pending' = Tail(pending)
    /\ UNCHANGED <<written, clean>>

\* a byte is written on its own
PutByte(c) ==
    /\ pending = <<>>
    /\ Len(stream) < MaxStream
    /\ DoOverflow(c)
    /\ clean' = FALSE
    /\ UNCHANGED <<pending, written>>

NextStream ==
    \/ \E cp \in StreamChars : WriteChar(cp)
    \/ FeedPending
    \/ \E c \in RawBytes : PutByte(c)

SpecStream == InitStream /\ [][NextStream]_vars

----------------------------------------------------------------------------
(* Claims about the UTF-8 decoder, under SpecStream *)

Front(q) == SubSeq(q, 1, Len(q) - 1)
IsContinuation(b) == b \in 128..191

\* the bytes a head byte announces, itself included; 0 for no head
AnnouncedSize(b) ==
    IF      b \in 192..223 THEN 2
    ELSE IF b \in 224..239 THEN 3
    ELSE IF b \in 240..247 THEN 4
    ELSE IF b \in 248..251 THEN 5
    ELSE IF b \in 252..253 THEN 6
    ELSE 0

\* the code point of the n bytes of q from i on, a head and its continuations
RECURSIVE Payload(_, _, _, _)
Payload(q, i, n, k) ==
    IF k = 0 THEN q[i] - HeadBase(n)
    ELSE 64 * Payload(q, i, n, k - 1) + (q[i + k] - 128)

\* the offset of the first byte after the head at i that is not a
\* continuation byte, n if the n - 1 bytes after the head all are
RECURSIVE Interrupt(_, _, _, _)
Interrupt(q, i, n, k) ==
    IF k = n THEN n
    ELSE IF i + k <= Len(q) /\ IsContinuation(q[i + k])
    THEN Interrupt(q, i, n, k + 1)
    ELSE k

\* the code points of the byte sequence q from i on: 7-bit bytes and whole
\* multi-byte sequences give one each, every other byte none.  A sequence cut
\* short by a byte that is no continuation is left out, and decoding goes on
\* at that byte, or after it when dropInterrupting.
RECURSIVE Decode(_, _, _)
Decode(q, i, dropInterrupting) ==
    IF i > Len(q) THEN <<>>
    ELSE IF q[i] < 128 THEN <<q[i]>> \o Decode(q, i + 1, dropInterrupting)
    ELSE IF AnnouncedSize(q[i]) = 0 THEN Decode(q, i + 1, dropInterrupting)
    ELSE LET n == AnnouncedSize(q[i])
             k == Interrupt(q, i, n, 1)
         IN  IF k = n
             THEN <<Payload(q, i, n, n - 1)>> \o Decode(q, i + n, dropInterrupting)
             ELSE IF i + k > Len(q) THEN <<>>
             ELSE Decode(q, i + k + (IF dropInterrupting THEN 1 ELSE 0),
                         dropInterrupting)

\* C1: fed well-formed UTF-8 characters (1- to 6-byte forms), overflow calls
\* Overlay::print exactly once per character, in order, with the code point
\* the character denotes, on the character's last byte, and the decoder is
\* back in its start state after each character.
C1_WellFormed ==
    clean =>
        /\ printed = (IF pending = <<>> THEN written ELSE Front(written))
        /\ decodeState = (IF pending = <<>> THEN UTF8DecodeStart
                                            ELSE UTF8DecodeMultibyte)

\* a 7-bit character and a 6-byte character after it, both printed
C1_Witness ==
    /\ clean /\ pending = <<>>
    /\ written = <<65, 2147483647>>
    /\ printed = written
    /\ stream = <<65, 253, 191, 191, 191, 191, 191>>
    /\ ret.nprint = 1

\* C2: in the multibyte state a byte that is no continuation byte puts the
\* decoder back in the start state with no print call, for the aborted
\* sequence or for the byte; for every byte and state overflow returns the
\* byte it was given.
C2_BadByte ==
    ret # NoOverflow =>
        /\ ret.r = ret.c
        /\ (ret.pre = UTF8DecodeMultibyte /\ ~IsContinuation(ret.c))
              => (decodeState = UTF8DecodeStart /\ ret.nprint = 0)

\* a 7-bit byte arriving in the middle of a 3-byte sequence
C2_Witness ==
    /\ ret.pre = UTF8DecodeMultibyte
    /\ ret.c = 65 /\ ret.r = 65 /\ ret.nprint = 0
    /\ decodeState = UTF8DecodeStart
    /\ Len(stream) >= 3
    /\ stream[Len(stream) - 2] = 226
    /\ IsContinuation(stream[Len(stream) - 1])

\* C3 as the spec states it: what is printed is what the stream without its
\* malformed bytes denotes; a well-formed character right after a truncated
\* multi-byte sequence is printed.
C3_AsStated == printed = Decode(stream, 1, FALSE)

\* C3, amended: what is printed is what the stream denotes once every
\* malformed byte and, with each truncated multi-byte sequence, the byte
\* that cut it short are removed: a well-formed character right after a
\* truncated sequence loses its first byte and is not printed.
C3_Resynchronise == printed = Decode(stream, 1, TRUE)

\* a head byte, the character that cuts it short and one more character
C3_Witness ==
    /\ stream = <<226, 65, 195, 169>>
    /\ written = <<65, 233>>
    /\ printed = <<233>>

----------------------------------------------------------------------------
(* Claims about getGlyph, under SpecFont *)

\* C8: for every code point ch whose rasterization fails (0 and the code
\* points of the pre-loaded blocks included) and every fallback whose
\* rasterization succeeds, getGlyph(ch, fallback) returns the fallback's
\* glyph record: its code point and its metrics.
C8_FallbackReturned ==
    (lastReq.ch \in ftFail /\ lastReq.fallback \notin ftFail)
        => /\ lastRet.ch = lastReq.fallback
           /\ Metrics(lastRet) = FT_Slot(lastReq.fallback)

\* C9: when neither ch nor the fallback can be rasterized, the record
\* getGlyph(ch, fallback) returns has all-zero metrics, for a fallback
\* outside the pre-loaded blocks and for one inside them.
C9_ZeroMetrics ==
    (lastReq.ch \in ftFail /\ lastReq.fallback \in ftFail)
        => Metrics(lastRet) = Metrics(ZeroGlyph)

\* C10: a getGlyph request returns the advance and bitmap metrics that an
\* earlier request with the same arguments returned, whatever requests
\* (insertions and atlas rebuilds included) came in between.
C10_StableMetrics ==
    (tracked # NoTracked /\ lastReq.ch = tracked.ch
                         /\ lastReq.fallback = tracked.fallback)
        => Metrics(lastRet) = tracked.metrics

\* C10's case: code point 233 was inserted by the remembered request, another
\* glyph was inserted (and the atlas rebuilt) after it, and 233 is requested
\* again.
C10_Witness ==
    /\ tracked.ch = 233 /\ 233 \notin ftFail
    /\ lastReq.ch = tracked.ch /\ lastReq.fallback = tracked.fallback
    /\ ~lastRebuilt
    /\ Len(impl.m_glyphs) >= tracked.glyphs + 2
    /\ impl.m_glyphs[tracked.glyphs + 1].ch = 233

----------------------------------------------------------------------------
(* Claims about the text cursor, under SpecOverlay *)

\* the height of the font's line and the advance the font has for c: the
\* face's advance of c, or of '?' when the face cannot rasterize c
LineDrop == 1 + (FT_Ascender + FT_Descender)
CharAdvance(c) ==
    IF c \in ftFail THEN FT_Slot(QuestionMark).ax ELSE FT_Slot(c).ax

\* this step prints a glyph that is the next one after beginText or after a
\* newline, in a text block in which only print was called
NextGlyphInBlock ==
    /\ lastOp'.op = "print" /\ lastOp'.c # Newline
    /\ blockLog # <<>> /\ ~Top(blockLog).dist
    /\ \/ lastOp.op = "beginText"
       \/ lastOp.op = "print" /\ lastOp.c = Newline

\* this step is an endText closing a text block in which only print was called
EndsBlock ==
    /\ lastOp'.op = "endText"
    /\ blockLog # <<>> /\ ~Top(blockLog).dist

C5_AsStated ==
    [][EndsBlock =>
         ov'.global = [x |-> Top(blockLog).x0, y |-> Top(blockLog).y0]]_vars

\* C5, amended: after endText the cursor is at (x0, y0 - k(1+H)), (x0, y0)
\* being the cursor at the matching beginText and k the newlines printed in
\* the block; the offsets are zero.
C5_CursorAfterEndText ==
    [][EndsBlock =>
         /\ ov'.global = [x |-> Top(blockLog).x0,
                          y |-> Top(blockLog).y0 - Top(blockLog).k * LineDrop]
         /\ ov'.xoffset = 0 /\ ov'.yoffset = 0]_vars

\* an endText closing a block with one newline, opened away from the origin
C5_Witness ==
    /\ lastOp.op = "endText" /\ ~crashed
    /\ lastOp.blk # <<>>
    /\ ~lastOp.blk[1].dist /\ lastOp.blk[1].k = 1 /\ lastOp.blk[1].x0 = 2
    /\ ov.global = [x |-> 2, y |-> lastOp.blk[1].y0 - LineDrop]

\* this step prints a newline with a font set
NewlineWithFont ==
    lastOp'.op = "print" /\ lastOp'.c = Newline /\ ov.font # 0

\* C6 as the spec states it: with a font set, every newline passed to print
\* sets xoffset and yoffset to 0, inside a text block or not.
C6_AsStated ==
    [][NewlineWithFont => (ov'.xoffset = 0 /\ ov'.yoffset = 0)]_vars

\* C6, amended: with a font set, a newline passed to print inside a text
\* block sets xoffset and yoffset to 0; outside a text block it leaves the
\* cursor, both offsets, the stack and textBlock as they were.
C6_NewlineOffsets ==
    [][NewlineWithFont =>
         IF ov.textBlock > 0
         THEN ov'.xoffset = 0 /\ ov'.yoffset = 0
         ELSE /\ ov'.xoffset = ov.xoffset /\ ov'.yoffset = ov.yoffset
              /\ ov'.global = ov.global /\ ov'.posStack = ov.posStack
              /\ ov'.textBlock = ov.textBlock]_vars

\* a newline printed in a text block right after a glyph
C6_Witness ==
    /\ lastOp.op = "print" /\ lastOp.c = Newline
    /\ ov.font # 0 /\ ov.textBlock > 0
    /\ blockLog # <<>> /\ ~Top(blockLog).dist /\ Top(blockLog).k = 1
    /\ ov.xoffset = 0 /\ ov.yoffset = 0
    /\ impl.m_fontVertices > 0

\* C7: with a font set, print of a character other than newline makes
\* exactly one font render call, at (global.x + xoffset, global.y + yoffset)
\* as they were before the call, then adds the character's advance to
\* xoffset; global, yoffset, the stack and textBlock are unchanged.
C7_PrintGlyph ==
    [][(lastOp'.op = "print" /\ lastOp'.c # Newline /\ ov.font # 0) =>
         /\ lastOp'.calls = << [c |-> lastOp'.c,
                                x |-> ov.global.x + ov.xoffset,
                                y |-> ov.global.y + ov.yoffset] >>
         /\ ov'.xoffset = ov.xoffset + CharAdvance(lastOp'.c)
         /\ ov'.global = ov.global
         /\ ov'.yoffset = ov.yoffset
         /\ ov'.posStack = ov.posStack
         /\ ov'.textBlock = ov.textBlock]_vars

\* a glyph from outside the pre-loaded blocks printed after another glyph,
\* with the cursor away from the origin
C7_Witness ==
    /\ lastOp.op = "print" /\ lastOp.c = 8364
    /\ ov.font # 0 /\ ov.global.x = 2
    /\ lastOp.calls = << [c |-> 8364, x |-> 2 + CharAdvance(65),
                          y |-> ov.global.y] >>
    /\ ov.xoffset = CharAdvance(65) + CharAdvance(8364)

----------------------------------------------------------------------------
(* Claims about the glyph table and the atlas, under SpecAtlas *)

\* the code points of the configured blocks, 0x20-0x7E and 0x3B1-0x3CF
BlockCodePoints == (32..126) \cup (945..975)

\* the place of a block code point among the block code points, from 0
BlockRank(ch) == Cardinality({c \in BlockCodePoints : c < ch})

\* code points around and between the blocks
OutsideProbes == {-1, 0, 31, 127, 500, 944, 976, 8364, 2147483647}

\* C11: the first getGlyph request for a rasterizable code point outside the
\* pre-loaded blocks appends exactly one glyph to the table and runs one
\* atlas rebuild; every later request for it, and every request for a
\* pre-loaded code point, appends nothing and runs no rebuild.
C11_InsertOnce ==
    lastCall.op = "getGlyph" =>
        LET ch == lastCall.ch
            n  == Len(impl.m_glyphs)
        IN  /\ (ch \notin BlockCodePoints /\ ch \notin ftFail /\ lastCall.first)
                  => /\ n = lastCall.glyphs + 1
                     /\ impl.m_glyphs[n].ch = ch
                     /\ Metrics(impl.m_glyphs[n]) = FT_Slot(ch)
                     /\ lastCall.rebuilt
            /\ (ch \in BlockCodePoints
                   \/ (ch \notin ftFail /\ ~lastCall.first))
                  => /\ n = lastCall.glyphs
                     /\ ~lastCall.rebuilt

\* a second request for 233, made after 976 was inserted behind it
C11_Witness ==
    /\ lastCall.op = "getGlyph" /\ lastCall.ch = 233 /\ ~lastCall.first
    /\ ftFail = {}
    /\ ~lastCall.rebuilt
    /\ Len(impl.m_glyphs) = Cardinality(BlockCodePoints) + 2
    /\ impl.m_glyphs[Len(impl.m_glyphs) - 1].ch = 233
    /\ impl.m_glyphs[Len(impl.m_glyphs)].ch = 976
    /\ lastCall.ret.ch = 233

\* C12: after the first buildAtlas the glyph table holds one slot for every
\* code point of the configured blocks, in block order, also for those whose
\* load failed; toPos maps each block code point to its own slot, a bijection
\* onto 0..count-1, and every other code point to -1; slot toPos(ch) holds
\* code point ch or the bad-glyph mark 0.
C12_CommonSlots ==
    /\ Len(impl.m_glyphs) >= Cardinality(BlockCodePoints)
    /\ GetCommonGlyphsCount(impl) = Cardinality(BlockCodePoints)
    /\ \A ch \in BlockCodePoints :
          /\ ToPos(ch) = BlockRank(ch)
          /\ impl.m_glyphs[ToPos(ch) + 1].ch \in {ch, 0}
          /\ ch \in ftFail => impl.m_glyphs[ToPos(ch) + 1].ch = 0
          /\ ch \notin ftFail => impl.m_glyphs[ToPos(ch) + 1].ch = ch
    /\ \A ch \in OutsideProbes : ToPos(ch) = -1

\* a font that cannot load 'A', after an insertion behind the block slots
C12_Witness ==
    /\ ftFail = {65}
    /\ impl.m_glyphs[65 - 32 + 1].ch = 0
    /\ impl.m_glyphs[66 - 32 + 1].ch = 66
    /\ Len(impl.m_glyphs) > Cardinality(BlockCodePoints)
    /\ lastCall.op = "getGlyph" /\ lastCall.ch = 65

\* C13: the atlas never places a glyph beyond the maximum texture dimension:
\* its width and its height are at most m_maxTextureSize, or buildAtlas
\* reports an error (it leaves no texture).
C13_AtlasFits ==
    impl.m_texName # 0 =>
        /\ impl.m_texWidth <= impl.m_maxTextureSize
        /\ impl.m_texHeight <= impl.m_maxTextureSize

\* the glyphs the latest buildAtlas pasted into the texture
Placed == {i \in DOMAIN impl.m_glyphs : impl.m_glyphs[i].ch # 0}

\* C26: the two atlas phases agree: buildAtlas places every glyph in a
\* rectangle inside the m_texWidth x m_texHeight texture computeTextureSize
\* computed: ox + bw <= m_texWidth and oy + bh <= m_texHeight.
C26_PlacedInsideTexture ==
    impl.m_texName # 0 =>
        \A i \in Placed :
            LET c == impl.m_glyphs[i]
            IN  /\ c.tx[1] + c.bw <= impl.m_texWidth
                /\ c.ty[1] + c.bh <= impl.m_texHeight

----------------------------------------------------------------------------
(* Claims about the vertex batch, under SpecBatch *)

\* the characters of s the loops of render and getWidth reach
RECURSIVE Decoded(_)
Decoded(s) ==
    IF s = <<>> \/ Head(s) = Invalid THEN <<>>
    ELSE <<Head(s)>> \o Decoded(Tail(s))

\* the glyphs of gs that have pixels
WithPixels(gs) == {i \in DOMAIN gs : gs[i].bw # 0 /\ gs[i].bh # 0}

Rendered == lastCall.op \in {"render", "renderString"}

\* C14 as stated: every glyph render call appends exactly 4 vertices and
\* submits no draw, for render(wchar_t) and for each character of
\* render(string), whatever the glyph.
C14_AsStated ==
    /\ lastCall.op = "render" =>
          /\ impl.m_fontVertices = lastCall.pre + 4
          /\ lastCall.draw = -1
    /\ lastCall.op = "renderString" =>
          /\ impl.m_fontVertices = lastCall.pre + 4 * Len(Decoded(lastCall.arg[1]))
          /\ lastCall.draw = -1

\* C14, corrected: no render call submits a draw.  render(wchar_t) appends
\* exactly 4 vertices whatever glyph getGlyph gave it.  render(string)
\* asks getGlyph for each character up to the first invalid one and appends
\* 4 vertices for each glyph that has both a width and a height, none for a
\* glyph without pixels; without an atlas texture it appends nothing and
\* returns 0.
C14_QuadsPerGlyph ==
    /\ lastCall.op = "render" =>
          /\ impl.m_fontVertices = lastCall.pre + 4
          /\ lastCall.draw = -1
    /\ lastCall.op = "renderString" =>
          /\ lastCall.draw = -1
          /\ IF lastCall.tex = 0
             THEN /\ impl.m_fontVertices = lastCall.pre
                  /\ lastCall.ret = 0
             ELSE /\ Len(lastCall.gs) = Len(Decoded(lastCall.arg[1]))
                  /\ impl.m_fontVertices =
                        lastCall.pre + 4 * Cardinality(WithPixels(lastCall.gs))

\* render("A ") appended the quad of 'A' and none for the space
C14_Witness ==
    /\ lastCall.op = "renderString"
    /\ lastCall.arg[1] = <<65, 32>>
    /\ lastCall.tex # 0
    /\ Len(lastCall.gs) = 2
    /\ lastCall.gs[2].bw = 0
    /\ impl.m_fontVertices = lastCall.pre + 4

\* C15: for a batch of q >= 1 quads, q >= 16384 included, flush() issues
\* exactly one indexed draw with 6 * q entries and leaves the batch empty.
C15_OneDrawOfAllQuads ==
    (lastCall.op = "flush" /\ lastCall.pre >= 4) =>
        /\ lastCall.draw = 6 * (lastCall.pre \div 4)
        /\ impl.m_fontVertices = 0

\* C16: flush() on an empty batch submits no draw and changes nothing, and a
\* second flush() right after a flush() changes nothing either.
C16_EmptyFlush ==
    lastCall.op = "flush" =>
        /\ lastCall.pre < 4 => (lastCall.draw = -1 /\ lastCall.same)
        /\ Flush([impl |-> impl, gl |-> gl]) = [impl |-> impl, gl |-> gl]

\* a flush() on the empty batch an earlier, drawing flush() left
C16_Witness ==
    /\ lastCall.op = "flush"
    /\ lastCall.pre = 0
    /\ lastCall.same
    /\ gl.lastDraw > 0

\* C19: for every string s, render(s, x, y) - x equals getWidth(s), on a
\* font that was loaded successfully.
C19_RenderAdvancesByWidth ==
    \A s \in BatchStrings, x \in BatchOffsets, genOk \in BOOLEAN :
        RenderString([impl |-> impl, gl |-> gl], s, x, 0, genOk).ret - x
            = GetWidth([impl |-> impl, gl |-> gl], s, genOk).ret

----------------------------------------------------------------------------
(* Claims about the shader state, under SpecShader *)

\* C17: setMVPMatrix flushes the pending batch before the new transform
\* takes effect: no quad appended before a setMVPMatrix call is drawn with
\* the matrix passed to that call.
C17_FlushBeforeTransform ==
    ~ /\ lastCall.op \in {"flush", "unbind", "setMVPMatrix"}
      /\ lastCall.draw > 0
      /\ lastCall.stale >= 4
      /\ lastCall.prog = 1
      /\ lastCall.mvp = lastCall.set

\* C18: after unbind() the batch is empty and everything that was pending
\* was submitted, the shader is not in use, and the texture and program
\* bindings are released.
C18_UnbindSubmitsAndReleases ==
    lastCall.op = "unbind" =>
        /\ impl.m_fontVertices = 0
        /\ lastCall.pre >= 4 => lastCall.draw = 6 * (lastCall.pre \div 4)
        /\ ~impl.m_shaderInUse
        /\ gl.boundTex = 0
        /\ gl.program = 0

----------------------------------------------------------------------------
(* Claims about loading, under SpecLoad *)

\* no call is made twice
NoRetry(steps) ==
    \A i, j \in DOMAIN steps : i # j => steps[i] # steps[j]

\* everything the call needed succeeded
AllSucceeded(l) ==
    /\ l.fn = "LoadTextureFont" => (l.lib # 0 \/ l.initOk)
    /\ l.face.newFaceOk
    /\ l.face.scalable
    /\ l.face.setSizeOk
    /\ l.genOk

\* C20: TextureFont::load and LoadTextureFont return null, without trying
\* again, whenever the file cannot be opened, the face is not scalable, the
\* size cannot be set or the atlas texture cannot be created; they return a
\* font only when every step succeeded.
C20_NullOnFailure ==
    lastLoad.ret # -1 =>
        /\ lastLoad.ret # 0 <=> AllSucceeded(lastLoad)
        /\ NoRetry(lastLoad.steps)
        /\ lastLoad.ret # 0 =>
              /\ impl.m_texName # 0
              /\ Len(impl.m_glyphs) = BlockSizes(1)

\* a load that failed at its last step: the texture could not be created
C20_Witness ==
    /\ lastLoad.ret = 0
    /\ lastLoad.fn = "LoadTextureFont"
    /\ lastLoad.face = [newFaceOk |-> TRUE, scalable |-> TRUE, setSizeOk |-> TRUE]
    /\ ~lastLoad.genOk
    /\ lastLoad.steps[Len(lastLoad.steps)] = "buildAtlas"
    /\ impl.m_texName = 0

----------------------------------------------------------------------------
(* Claims about the frustum, under SpecFrustum *)

\* the planes a test of f examines
TestedPlanes(f) == {PlaneOrder(f)[i] : i \in DOMAIN PlaneOrder(f)}

\* every order in which the planes of f can be examined
Orders(f) ==
    {[i \in DOMAIN PlaneOrder(f) |-> pi[PlaneOrder(f)[i]]] :
        pi \in Permutations(TestedPlanes(f))}

\* what the planes say of a sphere, whatever the order
SphereAspect(f, center, radius) ==
    IF \E i \in TestedPlanes(f) : BeyondRadius(f.planes[i], center, radius)
    THEN Outside
    ELSE IF \E i \in TestedPlanes(f) : WithinRadius(f.planes[i], center, radius)
    THEN Intersect
    ELSE Inside

\* C21: testSphere returns Outside whenever some tested plane has signed
\* distance < -radius, in whatever order the planes are examined; Intersect
\* only if no plane gives Outside and some plane has |distance| <= radius;
\* Inside otherwise.
C21_SphereAspect ==
    lastTest.op = "testSphere" =>
        /\ lastTest.result =
              SphereAspect(frustum.f, lastTest.point, lastTest.radius)
        /\ \A order \in Orders(frustum.f) :
              TestSphereFrom(frustum.f, order, lastTest.point, lastTest.radius,
                             1, {}) = lastTest.result

\* a sphere that touches the first plane examined and lies beyond the near
\* plane
C21_Witness ==
    /\ lastTest.op = "testSphere"
    /\ lastTest.result = Outside
    /\ WithinRadius(frustum.f.planes[Frustum_Bottom], lastTest.point,
                    lastTest.radius)
    /\ BeyondRadius(frustum.f.planes[Frustum_Near], lastTest.point,
                    lastTest.radius)

AtApex ==
    /\ lastTest.op = "testSphere"
    /\ lastTest.point = Apex
    /\ lastTest.radius = 0
    /\ frustum.params.near > 0

\* C22 as stated: for a frustum with a positive near distance, testSphere of
\* the sphere of radius 0 at the apex returns Inside.
C22_AsStated == AtApex => lastTest.result = Inside

\* C22, corrected: that sphere is Outside: the apex is at signed distance
\* -nearDist < 0 from the near plane (and on the four side planes).
C22_ApexOutside == AtApex => lastTest.result = Outside

C22_Witness == AtApex /\ lastTest.result = Outside

\* C23: test(point) returns Inside exactly when the point has non-negative
\* signed distance to every plane, Outside otherwise, never Intersect; for
\* fov = 90 degrees, aspect = 1, near = 1, far = 1000 the point (0,0,-500)
\* is Inside and the points (0,0,500) and (0,0,0.5) are Outside.
C23_PointAspect ==
    lastTest.op = "test" =>
        /\ lastTest.result \in {Inside, Outside}
        /\ lastTest.result = Inside <=>
              \A i \in TestedPlanes(frustum.f) :
                  ScaledDistance(frustum.f.planes[i], lastTest.point) >= 0
        /\ frustum.params = ScenarioFrustum =>
              /\ lastTest.point = <<0, 0, -1000>> => lastTest.result = Inside
              /\ lastTest.point = <<0, 0, 1000>> => lastTest.result = Outside
              /\ lastTest.point = <<0, 0, 1>> => lastTest.result = Outside

\* the point before the near plane of the scenario's frustum
C23_Witness ==
    /\ lastTest.op = "test"
    /\ frustum.params = ScenarioFrustum
    /\ lastTest.point = <<0, 0, 1>>
    /\ lastTest.result = Outside

----------------------------------------------------------------------------
(* Claims about the annotations, under SpecAnnotations *)

\* a is farther from the viewer than b
Farther(a, b) == a.position[3] < b.position[3]

----------------------------------------------------------------------------
(* Claims about the overlay over frames, under SpecFrame *)

\* C27: whenever Overlay::print appends a glyph to the font's batch, the
\* font is bound: its bind() was called and no unbind() of it has happened
\* since; a print after endText() or after begin() binds the font again
\* before it renders.
C27_BoundWhenRendering ==
    (lastOp.op = "print" /\ lastOp.calls # <<>>) => fontBound

\* C28: with font == nullptr every sequence of beginText, print, setColor
\* and endText calls completes without dereferencing the null font, and
\* print changes no cursor, offset or stack state.
C28_NullFontTolerated ==
    /\ ~crashed
    /\ (lastOp.op = "print" /\ lastOp.font = 0) => lastOp.same

----------------------------------------------------------------------------
(* Claims about the insertion counter, under SpecInsert *)

\* the glyphs inserted since load
Inserted == Len(impl.m_glyphs) - GetCommonGlyphsCount(impl)

\* C29: m_inserted stays in 0..9 after every getGlyph call: only an
\* insertion of a new glyph increments it, every 10th insertion resets it
\* to 0 and no other does, and the atlas is rebuilt by every call that
\* inserted, whether or not the counter was reset.
C29_InsertionCounter ==
    /\ impl.m_inserted \in 0..9
    /\ impl.m_inserted = Inserted % 10
    /\ lastCall.op = "getGlyph" =>
          (lastCall.rebuilt <=> Len(impl.m_glyphs) = lastCall.glyphs + 1)
    /\ (lastCall.op = "getGlyph" /\ ~lastCall.rebuilt) =>
          Len(impl.m_glyphs) = lastCall.glyphs

\* the call that made the 10th insertion: the counter is back at 0 and the
\* atlas was rebuilt
C29_Witness ==
    /\ lastCall.op = "getGlyph"
    /\ lastCall.rebuilt
    /\ Inserted = 10
    /\ impl.m_inserted = 0

----------------------------------------------------------------------------
(* Claims about the font library handle, under SpecThreads *)

\* C30: over every interleaving of LoadTextureFont calls the library handle
\* is initialised at most once: at most one call at a time is between its
\* test of ft and its FT_Init_FreeType, no call initialises a handle that is
\* already initialised, and a call whose initialisation failed returns null.
C30_InitialisedOnce ==
    /\ ftInits <= 1
    /\ Cardinality({t \in Threads : callers[t].pc = "init"}) <= 1
    /\ \A t \in Threads : callers[t].pc = "init" => ft = 0
    /\ \A t \in Threads : callers[t].pc = "failed" => callers[t].ret = 0

\* C31: with beginText, endText and print as the only callers of savePos
\* and restorePos, the position stack is as deep as textBlock counts open
\* blocks and textBlock is never negative; a newline printed inside a block
\* leaves the depth of the stack as it was, and an endText with no block
\* open changes neither the stack nor the cursor.
C31_StackDepth ==
    /\ [](Len(ov.posStack) = ov.textBlock /\ ov.textBlock >= 0)
    /\ [][(lastOp'.op = "print" /\ lastOp'.c = Newline /\ ov.textBlock > 0)
            => Len(ov'.posStack) = Len(ov.posStack)]_vars
    /\ [][(lastOp'.op = "endText" /\ ov.textBlock = 0)
            => (ov'.posStack = ov.posStack /\ ov'.global = ov.global)]_vars

\* a newline was printed, with a font, inside a block nested in another
C31_Witness ==
    /\ lastOp.op = "print"
    /\ lastOp.c = Newline
    /\ lastOp.font # 0
    /\ ~lastOp.same
    /\ ov.textBlock = 2

\* this step prints the first glyph after a beginText
FirstGlyphOfBlock ==
    /\ lastOp.op = "beginText"
    /\ lastOp'.op = "print" /\ lastOp'.c # Newline
    /\ ov.font # 0

\* C32: the first glyph printed after beginText is rendered at the cursor
\* position beginText saved, whatever was printed outside a block before.
C32_BlockStartsAtCursor ==
    [][FirstGlyphOfBlock =>
         lastOp'.calls = << [c |-> lastOp'.c,
                             x |-> Top(ov.posStack).x,
                             y |-> Top(ov.posStack).y] >>]_vars

\* C33: every glyph printed before a call of Overlay::drawRectangle has been
\* submitted to the graphics device when the rectangle is drawn: the font's
\* batch holds no vertex then.
C33_TextBeforeRectangle ==
    lastOp.op = "drawRectangle" => impl.m_fontVertices = 0

----------------------------------------------------------------------------
(* Claims about the colours, under SpecColor *)

\* C34: setColor flushes the font's pending batch before it changes the
\* colour attribute: every glyph printed before a setColor call is drawn, by
\* that call at the latest, with the colour in force when it was printed,
\* and no vertex printed before the call is left to be drawn with the new
\* colour.
C34_DrawnWithOwnColor ==
    /\ staleColored = 0
    /\ (lastOp.op = "setColor" /\ lastOp.font # 0 /\ lastOp.pre >= 4) =>
          /\ lastOp.draw = 6 * (lastOp.pre \div 4)
          /\ impl.m_fontVertices = 0

\* this step is a setFont(f) with f not the current font
ChangesFont == lastOp'.op = "setFont" /\ lastOp'.c # ov.font

\* this step is the first print after a setFont that changed the font, and
\* it appends a glyph
FirstPrintWithFont ==
    /\ lastOp.op # "none" /\ lastOp.changed
    /\ lastOp'.op = "print" /\ lastOp'.calls # <<>>

\* C35: setFont(f) with f not the current font leaves the old font without
\* pending vertices, and when the next print appends a glyph, f is bound and
\* holds the overlay's matrix; setFont with the current font changes nothing.
C35_SetFont ==
    /\ [][(ChangesFont /\ ov.font # 0) => impl'.m_fontVertices = 0]_vars
    /\ [][(lastOp'.op = "setFont" /\ ~ChangesFont)
            => (ov' = ov /\ impl' = impl /\ gl' = gl)]_vars
    /\ [][FirstPrintWithFont
            => (fontBound' /\ impl'.m_shaderInUse /\ gl'.uniformMVP = ov.mvp)]_vars

----------------------------------------------------------------------------
(* Claims about failed requests, under SpecAtlas *)

\* this step is a getGlyph(ch) for a code point outside the pre-loaded
\* blocks that the face cannot rasterize
FailedRequest ==
    /\ lastCall'.op = "getGlyph"
    /\ ToPos(lastCall'.ch) = -1
    /\ ~FT_Load_Char_Ok(lastCall'.ch)

\* C36: a getGlyph request for a code point outside the pre-loaded blocks
\* whose rasterization fails returns the bad glyph and leaves the glyph
\* table, the insertion counter and the atlas texture as they were, without
\* a rebuild; this holds for the first request and for every later one, so
\* the failure is not remembered in the table.
C36_FailedRequest ==
    [][FailedRequest =>
         /\ lastCall'.ret = g_badGlyph
         /\ ~lastCall'.rebuilt
         /\ impl'.m_glyphs = impl.m_glyphs
         /\ impl'.m_inserted = impl.m_inserted
         /\ impl'.m_texName = impl.m_texName
         /\ impl'.m_texWidth = impl.m_texWidth
         /\ impl'.m_texHeight = impl.m_texHeight
         /\ gl' = gl]_vars

\* a request that failed again, after a glyph was inserted
C36_Witness ==
    /\ lastCall.op = "getGlyph"
    /\ ToPos(lastCall.ch) = -1
    /\ ~FT_Load_Char_Ok(lastCall.ch)
    /\ ~lastCall.first
    /\ lastCall.ret = g_badGlyph
    /\ impl.m_inserted > 0

----------------------------------------------------------------------------
(* Claims about whole quads, under SpecShader *)

\* C37: after every sequence of render, flush, bind, setMVPMatrix and unbind
\* calls the batch holds a multiple of 4 vertices, and a flush() either finds
\* the batch empty and does nothing, or submits all of its quads and leaves
\* it empty.
C37_WholeQuads ==
    /\ impl.m_fontVertices % 4 = 0
    /\ lastCall.op = "flush" =>
          \/ /\ lastCall.pre = 0
             /\ lastCall.draw = -1
             /\ lastCall.same
          \/ /\ lastCall.pre >= 4
             /\ lastCall.draw = 6 * (lastCall.pre \div 4)
             /\ impl.m_fontVertices = 0

----------------------------------------------------------------------------
(* Claims about the rectangles of the atlas, under SpecAtlas *)

\* the row of the atlas each glyph was pasted into: a row begins with the
\* glyph pasted at ox = 0
RowOf(glyphs) ==
    [i \in DOMAIN glyphs |->
        Cardinality({k \in 1..i : glyphs[k].ch # 0 /\ glyphs[k].tx[1] = 0})]

\* no pixel of the texture lies in the rectangles of both glyphs
DisjointRectangles(a, b) ==
    \/ a.bw = 0 \/ a.bh = 0 \/ b.bw = 0 \/ b.bh = 0
    \/ a.tx[1] + a.bw <= b.tx[1]
    \/ b.tx[1] + b.bw <= a.tx[1]
    \/ a.ty[1] + a.bh <= b.ty[1]
    \/ b.ty[1] + b.bh <= a.ty[1]

\* C38: in every atlas buildAtlas produced the rectangles of two placed
\* glyphs are disjoint: in a row a glyph starts at least one pixel column
\* after the end of every glyph pasted before it, and the glyphs of a row
\* start at a y offset no less than the lower edge of every glyph of the
\* rows above.
C38_GlyphsDisjoint ==
    impl.m_texName # 0 =>
        With(RowOf(impl.m_glyphs), LAMBDA row :
            \A i, j \in Placed :
                i < j =>
                    LET a == impl.m_glyphs[i]
                        b == impl.m_glyphs[j]
                    IN  /\ DisjointRectangles(a, b)
                        /\ row[i] = row[j] =>
                              /\ b.ty[1] = a.ty[1]
                              /\ b.tx[1] >= a.tx[1] + a.bw + 1
                        /\ row[i] # row[j] =>
                              b.ty[1] >= a.ty[1] + a.bh)

\* an atlas rebuilt for an inserted glyph that shares the last row with
\* another glyph, under the first rows
C38_Witness ==
    /\ lastCall.op = "getGlyph"
    /\ lastCall.rebuilt
    /\ impl.m_texName # 0
    /\ LET n == Len(impl.m_glyphs)
       IN  /\ impl.m_glyphs[n].ch # 0
           /\ impl.m_glyphs[n].tx[1] > 0
           /\ impl.m_glyphs[n].ty[1] > 0
           /\ impl.m_glyphs[n].bw > 0 /\ impl.m_glyphs[n].bh > 0

====
